---- MODULE Spec2Model ----
(***************************************************************************)
(* KindaRepositoryServer (src/src/index.js): the REST dispatcher over a    *)
(* repository of collections.  One action per request handler; a handler   *)
(* is translated statement by statement into an operator over the request  *)
(* context, every external call it makes being appended to the call log.   *)
(*                                                                         *)
(* Strings that the code slices (paths) are sequences of tokens, "/" being *)
(* the separator token and every other token a run of characters without   *)
(* "/"; two such runs side by side spell one segment ("/v1users" is "/",   *)
(* "v1", "users").  undefined is "" for strings and NoItem for items.      *)
(***************************************************************************)
EXTENDS Integers, Sequences, FiniteSets, TLC

VARIABLES handlers, store, phase, ctx, log

vars == <<handlers, store, phase, ctx, log>>

(***************************************************************************)
(* Bounds of the model.                                                    *)
(***************************************************************************)
Ids == {"a", "b"}
Values == {"Manu", "Manuel"}
MaxBulk == 2

(***************************************************************************)
(* Items and bodies.                                                       *)
(***************************************************************************)
NoItem == [id |-> "", value |-> ""]
Item(id, value) == [id |-> id, value |-> value]

NoBody == [kind |-> "none", item |-> NoItem, items |-> <<>>, num |-> 0, flag |-> FALSE, text |-> ""]
ItemBody(cls, item) == [NoBody EXCEPT !.kind = "item", !.item = item, !.text = cls]
ItemsBody(items) == [NoBody EXCEPT !.kind = "items", !.items = items]
NumBody(n) == [NoBody EXCEPT !.kind = "number", !.num = n]
BoolBody(b) == [NoBody EXCEPT !.kind = "boolean", !.flag = b]
TextBody(s) == [NoBody EXCEPT !.kind = "text", !.text = s]

NoRequestBody == [item |-> NoItem, ids |-> <<>>, text |-> ""]

(***************************************************************************)
(* lodash string helpers on the names that occur.                          *)
(***************************************************************************)
\* the comparison of the raw fragment, without _.camelCase
camelCase_Raw(s) == IF s = "?" THEN "" ELSE s

camelCase(s) ==
  CASE s = "count-retired" -> "countRetired"
    [] s = "get-items" -> "getItems"
    [] s = "generate-report" -> "generateReport"
    [] s = "Count" -> "count"
    [] s = "?" -> ""
    [] OTHER -> s

kebabCase(s) ==
  CASE s = "Users" -> "users"
    [] s = "Posts" -> "posts"
    [] s = "countRetired" -> "count-retired"
    [] s = "getItems" -> "get-items"
    [] s = "generateReport" -> "generate-report"
    [] s = "contentType" -> "content-type"
    [] s = "contentDisposition" -> "content-disposition"
    [] OTHER -> s

startsWith(p, t) == Len(p) > 0 /\ p[1] = t

endsWith(p, t) == Len(p) > 0 /\ p[Len(p)] = t

\* String.prototype.slice(from) and slice(from, to), 0-based, to exclusive
sliceFrom(p, from) == SubSeq(p, from + 1, Len(p))

slice(p, from, to) == SubSeq(p, from + 1, to)

\* String.prototype.indexOf('/'): 0-based index of the first "/", or -1
indexOf(p, t) ==
  IF \E i \in 1..Len(p) : p[i] = t
    THEN (CHOOSE i \in 1..Len(p) : p[i] = t /\ \A j \in 1..(i - 1) : p[j] # t) - 1
    ELSE -1

\* the string a token sequence spells; "?" stands for every string that is
\* none of the names the server knows (several tokens, or a "/" inside)
str(p) == IF Len(p) = 0 THEN "" ELSE IF Len(p) = 1 THEN p[1] ELSE "?"

(***************************************************************************)
(* Server configuration (creator, registerCollection).                     *)
(***************************************************************************)
CollectionNames == {"Users", "Posts"}

Events == {"didGetItem", "willPutItem", "didPutItem", "willDeleteItem", "didDeleteItem",
           "didGetItems", "didFindItems", "didCountItems", "didFindAndDeleteItems"}

\* RegisteredCollection.creator: a method entry is "true" (shorthand) or "fn"
RegisteredCollection(name) ==
  IF name = "Users"
    THEN [name |-> name, slug |-> kebabCase(name), authorizeHandler |-> "Users.authorizeHandler",
          collectionMethods |-> [countRetired |-> "true", echo |-> "fn"],
          itemMethods |-> [get |-> "true", generateReport |-> "fn"],
          eventListeners |-> Events]
    ELSE [name |-> name, slug |-> kebabCase(name), authorizeHandler |-> "",
          collectionMethods |-> [count |-> "true", getItems |-> "fn"],
          itemMethods |-> [get |-> "true"],
          eventListeners |-> {}]

Slugs == {kebabCase(n) : n \in CollectionNames}

registeredCollections == [s \in Slugs |-> RegisteredCollection(CHOOSE n \in CollectionNames : kebabCase(n) = s)]

hasOwnProperty(methods, name) == name \in DOMAIN methods

\* the authorize handlers of the tests: request.authorization === 'secret-token'
CallAuthorizeHandler(handler, authorization) == authorization = "secret-token"

\* the willPutItem listener of the tests rewrites firstName 'Manuel' to 'Manu'
CallListeners(rc, event, item) ==
  IF event = "willPutItem" /\ event \in registeredCollections[rc].eventListeners /\ item.value = "Manuel"
    THEN [item EXCEPT !.value = "Manu"]
    ELSE item

(***************************************************************************)
(* The request context.  It carries koa's ctx (method, options,            *)
(* authorization, request.body, status, body, response headers), the       *)
(* objects the handlers reach through it (the storage, the call log) and   *)
(* how the handler chain ended: err is the status of the thrown error (0:  *)
(* nothing thrown), passed counts the `yield next`.                        *)
(***************************************************************************)
Entry(op, name, who, item, ok, tx) ==
  [op |-> op, name |-> name, who |-> who, item |-> item, ok |-> ok, tx |-> tx, args |-> <<>>]

\* the options a call is given: ctx.options is the last argument of the
\* storage calls and the options field of the request object handed to the
\* authorize handler, the listeners and the custom methods
PassedOptions(c, op) ==
  IF op \in {"getItems", "findItems", "countItems", "findAndDeleteItems", "save", "delete",
             "authorize", "emit", "custom"}
    THEN <<c.options>>
    ELSE <<>>

Logged(c, op, name, who, item, ok) ==
  [c EXCEPT !.log = Append(@, [Entry(op, name, who, item, ok, Len(c.snaps))
                                 EXCEPT !.args = PassedOptions(c, op)])]

\* a call of a storage method, with the list of the arguments it was given
LoggedCall(c, name, who, item, ok, args) ==
  [c EXCEPT !.log = Append(@, [Entry("method", name, who, item, ok, Len(c.snaps)) EXCEPT !.args = args])]

\* koa: a fresh context answers 404 until a status or a body is set
NewContext(req, st, hs) ==
  [method |-> req.method, querystring |-> req.query, options |-> req.query,
   authorization |-> "", registeredCollection |-> "", request |-> req,
   requestBody |-> NoRequestBody, status |-> 404, explicitStatus |-> FALSE,
   body |-> NoBody, headers |-> {}, logLevel |-> "",
   err |-> 0, passed |-> 0, handler |-> "", fragment1 |-> "", fragment2 |-> "",
   item |-> NoItem, hasBeenDeleted |-> FALSE,
   result |-> NoBody, resultHeaders |-> {},
   handlers |-> hs, store |-> st, snaps |-> <<>>, log |-> <<>>]

\* c1 = yield step; rest(c1): the step is evaluated once, then the rest
Bind(step, rest(_)) == CHOOSE r \in {rest(c1) : c1 \in {step}} : TRUE

\* ctx.throw(status, message); a plain Error is a 500
throw(c, status) == [c EXCEPT !.err = status]

\* ctx.status = s
SetStatus(c, s) == [c EXCEPT !.status = s, !.explicitStatus = TRUE]

\* ctx.body = val: null answers 204, any other value 200 unless a status was set
SetBody(c, val) ==
  IF val.kind = "none"
    THEN [c EXCEPT !.body = NoBody, !.status = 204]
    ELSE [c EXCEPT !.body = val, !.status = IF c.explicitStatus THEN @ ELSE 200]

\* yield next
Next_(c) == IF c.err # 0 THEN c ELSE [Logged(c, "next", "", "", NoItem, TRUE) EXCEPT !.passed = @ + 1]

(***************************************************************************)
(* The storage capability, as the handlers call it.                        *)
(***************************************************************************)
Stored(st, name, id) == IF id \in Ids /\ st[name][id] # "" THEN Item(id, st[name][id]) ELSE NoItem

KeysOf(st, name) == {id \in Ids : st[name][id] # ""}

\* keys are ordered as strings
IdOrder == <<"a", "b", "c", "d">>

Rank(id) == CHOOSE i \in 1..Len(IdOrder) : IdOrder[i] = id

RECURSIVE SortedKeys(_)
SortedKeys(S) ==
  IF S = {} THEN <<>>
  ELSE LET m == CHOOSE x \in S : \A y \in S : Rank(x) <= Rank(y)
       IN <<m>> \o SortedKeys(S \ {m})

InRange(id, options) ==
  /\ (options.start = "" \/ Rank(options.start) <= Rank(id))
  /\ (options.end = "" \/ Rank(id) <= Rank(options.end))

Matching(st, name, options) == {id \in KeysOf(st, name) : InRange(id, options)}

\* collection.transaction(fn): fn runs on the storage; a throw restores it
transaction(c, fn(_)) ==
  IF c.err # 0 THEN c
  ELSE Bind([Logged(c, "transaction", "", "", NoItem, TRUE) EXCEPT !.snaps = Append(@, c.store)], LAMBDA c1 :
       Bind(fn(c1), LAMBDA c2 :
         IF c2.err # 0
           THEN [c2 EXCEPT !.snaps = SubSeq(@, 1, Len(@) - 1),
                           !.store = c.store,
                           !.log = Append(@, Entry("rollback", "", "", NoItem, FALSE, Len(c.snaps)))]
           ELSE [c2 EXCEPT !.snaps = SubSeq(@, 1, Len(@) - 1),
                           !.log = Append(@, Entry("commit", "", "", NoItem, TRUE, Len(c.snaps)))]))

CollectionName(c) == registeredCollections[c.registeredCollection].name

\* item.save(options): an insert when the item is new (it fails when the key
\* exists), else a write under the item's key; the options are handed to the
\* storage as they are, and whether the storage accepts the write is its own
\* decision (the fault "save" is the storage refusing it)
save(c, item, isNew) ==
  IF c.err # 0 THEN c
  ELSE LET name == CollectionName(c)
           exists == Stored(c.store, name, item.id) # NoItem
           fails == \/ c.request.fault = "save"
                    \/ item.id \notin Ids
                    \/ (isNew /\ exists)
       IN IF fails
            THEN throw(Logged(c, "save", item.id, name, item, FALSE), 500)
            ELSE [Logged(c, "save", item.id, name, item, TRUE) EXCEPT !.store[name][item.id] = item.value]

\* item.delete(options) -> hasBeenDeleted
delete(c, item) ==
  IF c.err # 0 THEN c
  ELSE LET name == CollectionName(c)
           removed == c.request.fault # "delete" /\ Stored(c.store, name, item.id) # NoItem
       IN IF removed
            THEN [Logged(c, "delete", item.id, name, item, TRUE)
                    EXCEPT !.store[name][item.id] = "", !.hasBeenDeleted = TRUE]
            ELSE [Logged(c, "delete", item.id, name, item, FALSE) EXCEPT !.hasBeenDeleted = FALSE]

\* collection.createItem(remoteItem): storage assigns the key when none is given
createItem(c, remoteItem) ==
  IF remoteItem.id = "" THEN [remoteItem EXCEPT !.id = c.request.newId] ELSE remoteItem

readBody(c) ==
  IF c.err # 0 THEN c
  ELSE [Logged(c, "readBody", "", "", NoItem, TRUE) EXCEPT !.requestBody = c.request.body]

authorizationUnserializer(query) == query.authorization

\* authorizeRequest that asks the handler and goes on whatever it answers
authorizeRequest_NoThrow(c, method, item) ==
  IF c.err # 0 THEN c
  ELSE LET handler1 == IF c.registeredCollection # ""
                         THEN registeredCollections[c.registeredCollection].authorizeHandler
                         ELSE ""
           handler == IF handler1 # "" THEN handler1
                      ELSE IF "authorizeHandler" \in c.handlers THEN "authorizeHandler" ELSE ""
       IN IF handler = "" THEN c
          ELSE Logged(c, "authorize", method, handler, item, CallAuthorizeHandler(handler, c.authorization))

\* authorizeRequest that looks for the server-wide handler first
authorizeRequest_ServerFirst(c, method, item) ==
  IF c.err # 0 THEN c
  ELSE LET handler1 == IF "authorizeHandler" \in c.handlers THEN "authorizeHandler" ELSE ""
           handler == IF handler1 # "" THEN handler1
                      ELSE IF c.registeredCollection # ""
                             THEN registeredCollections[c.registeredCollection].authorizeHandler
                             ELSE ""
       IN IF handler = "" THEN c
          ELSE LET isAuthorized == CallAuthorizeHandler(handler, c.authorization)
                   c1 == Logged(c, "authorize", method, handler, item, isAuthorized)
               IN IF ~isAuthorized THEN throw(c1, 403) ELSE c1

\* authorizeRequest that refuses with 401
authorizeRequest_Throw401(c, method, item) ==
  IF c.err # 0 THEN c
  ELSE LET handler1 == IF c.registeredCollection # ""
                         THEN registeredCollections[c.registeredCollection].authorizeHandler
                         ELSE ""
           handler == IF handler1 # "" THEN handler1
                      ELSE IF "authorizeHandler" \in c.handlers THEN "authorizeHandler" ELSE ""
       IN IF handler = "" THEN c
          ELSE LET isAuthorized == CallAuthorizeHandler(handler, c.authorization)
                   c1 == Logged(c, "authorize", method, handler, item, isAuthorized)
               IN IF ~isAuthorized THEN throw(c1, 401) ELSE c1

authorizeRequest(c, method, item) ==
  IF c.err # 0 THEN c
  ELSE LET handler1 == IF c.registeredCollection # ""
                         THEN registeredCollections[c.registeredCollection].authorizeHandler
                         ELSE ""
           handler == IF handler1 # "" THEN handler1
                      ELSE IF "authorizeHandler" \in c.handlers THEN "authorizeHandler" ELSE ""
       IN IF handler = "" THEN c
          ELSE LET isAuthorized == CallAuthorizeHandler(handler, c.authorization)
                   c1 == Logged(c, "authorize", method, handler, item, isAuthorized)
               IN IF ~isAuthorized THEN throw(c1, 403) ELSE c1

emitEvent(c, event, item) ==
  IF c.err # 0 THEN c
  ELSE LET rc == c.registeredCollection
           listening == event \in registeredCollections[rc].eventListeners
           throws == listening /\ c.request.fault = event
           c1 == [Logged(c, "emit", event, IF listening THEN "listener" ELSE "", item, ~throws)
                    EXCEPT !.item = CallListeners(rc, event, item)]
       IN IF throws THEN throw(c1, 500) ELSE c1

\* _getItem whose missing-item policy defaults to false
_getItem_OptionalByDefault(c, id, errorIfMissing) ==
  IF c.err # 0 THEN c
  ELSE LET e1 == IF errorIfMissing = "undefined" THEN c.options.errorIfMissing ELSE errorIfMissing
           e2 == IF e1 = "undefined" THEN "false" ELSE e1
       IN IF id = "" THEN throw(c, 400)
          ELSE LET item == Stored(c.store, CollectionName(c), id)
                   c1 == [Logged(c, "getItem", id, "errorIfMissing=false", item, item # NoItem)
                            EXCEPT !.item = item]
               IN IF item = NoItem /\ e2 = "true" THEN throw(c1, 404) ELSE c1

\* _getItem that requires the item whatever errorIfMissing says
_getItem_AlwaysRequired(c, id, errorIfMissing) ==
  IF c.err # 0 THEN c
  ELSE IF id = "" THEN throw(c, 400)
  ELSE LET item == Stored(c.store, CollectionName(c), id)
           c1 == [Logged(c, "getItem", id, "errorIfMissing=false", item, item # NoItem)
                    EXCEPT !.item = item]
       IN IF item = NoItem THEN throw(c1, 404) ELSE c1

\* _getItem that reports 404 and lets the handler go on
_getItem_NoThrow(c, id, errorIfMissing) ==
  IF c.err # 0 THEN c
  ELSE LET e1 == IF errorIfMissing = "undefined" THEN c.options.errorIfMissing ELSE errorIfMissing
           e2 == IF e1 = "undefined" THEN "true" ELSE e1
       IN IF id = "" THEN throw(c, 400)
          ELSE LET item == Stored(c.store, CollectionName(c), id)
                   c1 == [Logged(c, "getItem", id, "errorIfMissing=false", item, item # NoItem)
                            EXCEPT !.item = item]
               IN IF item = NoItem /\ e2 = "true" THEN SetStatus(c1, 404) ELSE c1

_getItem(c, id, errorIfMissing) ==
  IF c.err # 0 THEN c
  ELSE LET e1 == IF errorIfMissing = "undefined" THEN c.options.errorIfMissing ELSE errorIfMissing
           e2 == IF e1 = "undefined" THEN "true" ELSE e1
       IN IF id = "" THEN throw(c, 400)
          ELSE LET item == Stored(c.store, CollectionName(c), id)
                   c1 == [Logged(c, "getItem", id, "errorIfMissing=false", item, item # NoItem)
                            EXCEPT !.item = item]
               IN IF item = NoItem /\ e2 = "true" THEN throw(c1, 404) ELSE c1

\* item.class.name
ClassName(c) == IF CollectionName(c) = "Users" THEN "User" ELSE "Post"

\* item.updateValue(remoteItem): the incoming properties are set on the item
updateValue(item, remoteItem) ==
  [id |-> IF remoteItem.id # "" THEN remoteItem.id ELSE item.id, value |-> remoteItem.value]

(***************************************************************************)
(* Item requests.                                                          *)
(***************************************************************************)
handleGetItemRequest(c, id) ==
  Bind(_getItem(c, id, "undefined"), LAMBDA c1 :
  Bind(authorizeRequest(c1, "getItem", c1.item), LAMBDA c2 :
  Bind(emitEvent(c2, "didGetItem", c1.item), LAMBDA c3 :
    LET remoteItem == c1.item
    IN IF c3.err # 0 THEN c3
       ELSE IF remoteItem # NoItem
              THEN SetBody(c3, ItemBody(ClassName(c3), remoteItem))
              ELSE SetStatus(c3, 204))))

\* the create that answers with the request body instead of the saved item
PostItemTransaction_EchoBody(t, remoteItem) ==
  LET item == createItem(t, remoteItem)
  IN Bind(authorizeRequest(t, "putItem", item), LAMBDA t1 :
     Bind(emitEvent(t1, "willPutItem", item), LAMBDA t2 :
     Bind(save(t2, t2.item, TRUE), LAMBDA t3 :
     Bind(emitEvent(t3, "didPutItem", t2.item), LAMBDA t4 :
       IF t4.err # 0 THEN t4
       ELSE SetBody(SetStatus(t4, 201), ItemBody(ClassName(t4), item))))))

PostItemTransaction(t, remoteItem) ==
  LET item == createItem(t, remoteItem)
  IN Bind(authorizeRequest(t, "putItem", item), LAMBDA t1 :
     Bind(emitEvent(t1, "willPutItem", item), LAMBDA t2 :
     Bind(save(t2, t2.item, TRUE), LAMBDA t3 :
     Bind(emitEvent(t3, "didPutItem", t2.item), LAMBDA t4 :
       IF t4.err # 0 THEN t4
       ELSE SetBody(SetStatus(t4, 201), ItemBody(ClassName(t4), t2.item))))))

\* the create run without collection.transaction around it
handlePostItemRequest_NoTransaction(c) ==
  Bind(readBody(c), LAMBDA c1 : PostItemTransaction(c1, c1.requestBody.item))

handlePostItemRequest(c) ==
  Bind(readBody(c), LAMBDA c1 :
    transaction(c1, LAMBDA t : PostItemTransaction(t, c1.requestBody.item)))

\* the update that saves before it tells the willPutItem listeners
PutItemTransaction_SaveFirst(t, id, remoteItem) ==
  LET errorIfMissing == IF t.options.createIfMissing THEN "false" ELSE "undefined"
  IN Bind(_getItem(t, id, errorIfMissing), LAMBDA t1 :
     Bind(authorizeRequest(t1, "putItem", t1.item), LAMBDA t2 :
     Bind(save(t2, IF t1.item # NoItem THEN updateValue(t1.item, remoteItem) ELSE remoteItem, FALSE),
          LAMBDA t3 :
     Bind(emitEvent(t3, "willPutItem",
                    IF t1.item # NoItem THEN updateValue(t1.item, remoteItem) ELSE remoteItem), LAMBDA t4 :
     Bind(emitEvent(t4, "didPutItem", t4.item), LAMBDA t5 :
       IF t5.err # 0 THEN t5
       ELSE SetBody(SetStatus(t5, 200), ItemBody(ClassName(t5), t4.item)))))))

\* the update that applies the incoming values before it asks the handler
PutItemTransaction_UpdateFirst(t, id, remoteItem) ==
  LET errorIfMissing == IF t.options.createIfMissing THEN "false" ELSE "undefined"
  IN Bind(_getItem(t, id, errorIfMissing), LAMBDA t1 :
     Bind(authorizeRequest(t1, "putItem",
                           IF t1.item # NoItem THEN updateValue(t1.item, remoteItem) ELSE remoteItem),
          LAMBDA t2 :
     Bind(emitEvent(t2, "willPutItem",
                    IF t1.item # NoItem THEN updateValue(t1.item, remoteItem) ELSE remoteItem), LAMBDA t3 :
     Bind(save(t3, t3.item, FALSE), LAMBDA t4 :
     Bind(emitEvent(t4, "didPutItem", t3.item), LAMBDA t5 :
       IF t5.err # 0 THEN t5
       ELSE SetBody(SetStatus(t5, 200), ItemBody(ClassName(t5), t3.item)))))))

\* the update whose synthesized item takes the id of the URL
PutItemTransaction_UrlId(t, id, remoteItem) ==
  LET errorIfMissing == IF t.options.createIfMissing THEN "false" ELSE "undefined"
  IN Bind(_getItem(t, id, errorIfMissing), LAMBDA t1 :
     Bind(authorizeRequest(t1, "putItem", t1.item), LAMBDA t2 :
     Bind(emitEvent(t2, "willPutItem",
                    IF t1.item # NoItem THEN updateValue(t1.item, remoteItem)
                    ELSE [remoteItem EXCEPT !.id = id]), LAMBDA t3 :
     Bind(save(t3, t3.item, FALSE), LAMBDA t4 :
     Bind(emitEvent(t4, "didPutItem", t3.item), LAMBDA t5 :
       IF t5.err # 0 THEN t5
       ELSE SetBody(SetStatus(t5, 200), ItemBody(ClassName(t5), t3.item)))))))

PutItemTransaction(t, id, remoteItem) ==
  LET errorIfMissing == IF t.options.createIfMissing THEN "false" ELSE "undefined"
  IN Bind(_getItem(t, id, errorIfMissing), LAMBDA t1 :
     Bind(authorizeRequest(t1, "putItem", t1.item), LAMBDA t2 :
     Bind(emitEvent(t2, "willPutItem",
                    IF t1.item # NoItem THEN updateValue(t1.item, remoteItem) ELSE remoteItem), LAMBDA t3 :
     Bind(save(t3, t3.item, FALSE), LAMBDA t4 :
     Bind(emitEvent(t4, "didPutItem", t3.item), LAMBDA t5 :
       IF t5.err # 0 THEN t5
       ELSE SetBody(SetStatus(t5, 200), ItemBody(ClassName(t5), t3.item)))))))

handlePutItemRequest(c, id) ==
  Bind(readBody(c), LAMBDA c1 :
    transaction(c1, LAMBDA t : PutItemTransaction(t, id, c1.requestBody.item)))

\* the delete that reports didDeleteItem whatever item.delete returned
handleDeleteItemRequest_AlwaysDid(c, id) ==
  Bind(_getItem(c, id, "undefined"), LAMBDA c1 :
  Bind(IF c1.err = 0 /\ c1.item # NoItem
         THEN Bind(authorizeRequest(c1, "deleteItem", c1.item), LAMBDA c2 :
              Bind(emitEvent(c2, "willDeleteItem", c1.item), LAMBDA c3 :
              Bind(delete(c3, c1.item), LAMBDA c4 :
                emitEvent(c4, "didDeleteItem", c1.item))))
         ELSE c1, LAMBDA c5 :
    IF c5.err # 0 THEN c5 ELSE SetBody(c5, BoolBody(c5.hasBeenDeleted))))

\* the delete that tells the willDeleteItem listeners after the removal
handleDeleteItemRequest_DeleteFirst(c, id) ==
  Bind(_getItem(c, id, "undefined"), LAMBDA c1 :
  Bind(IF c1.err = 0 /\ c1.item # NoItem
         THEN Bind(authorizeRequest(c1, "deleteItem", c1.item), LAMBDA c2 :
              Bind(delete(c2, c1.item), LAMBDA c3 :
              Bind(emitEvent(c3, "willDeleteItem", c1.item), LAMBDA c4 :
                IF c4.hasBeenDeleted THEN emitEvent(c4, "didDeleteItem", c1.item) ELSE c4)))
         ELSE c1, LAMBDA c5 :
    IF c5.err # 0 THEN c5 ELSE SetBody(c5, BoolBody(c5.hasBeenDeleted))))

handleDeleteItemRequest(c, id) ==
  Bind(_getItem(c, id, "undefined"), LAMBDA c1 :
  Bind(IF c1.err = 0 /\ c1.item # NoItem
         THEN Bind(authorizeRequest(c1, "deleteItem", c1.item), LAMBDA c2 :
              Bind(emitEvent(c2, "willDeleteItem", c1.item), LAMBDA c3 :
              Bind(delete(c3, c1.item), LAMBDA c4 :
                IF c4.hasBeenDeleted THEN emitEvent(c4, "didDeleteItem", c1.item) ELSE c4)))
         ELSE c1, LAMBDA c5 :
    IF c5.err # 0 THEN c5 ELSE SetBody(c5, BoolBody(c5.hasBeenDeleted))))

(***************************************************************************)
(* Collection requests.                                                    *)
(***************************************************************************)
RECURSIVE ItemsOf(_, _, _)
ItemsOf(st, name, ids) ==
  IF ids = <<>> THEN <<>>
  ELSE (IF Stored(st, name, Head(ids)) # NoItem THEN <<Stored(st, name, Head(ids))>> ELSE <<>>)
       \o ItemsOf(st, name, Tail(ids))

\* collection.getItems(ids, options)
getItems(c, ids) == ItemsOf(c.store, CollectionName(c), ids)

\* collection.findItems(options)
findItems(c) == ItemsOf(c.store, CollectionName(c), SortedKeys(Matching(c.store, CollectionName(c), c.options)))

\* the count that ignores the options
countItems_Total(c) == Cardinality(KeysOf(c.store, CollectionName(c)))

\* collection.countItems(options)
countItems(c) == Cardinality(Matching(c.store, CollectionName(c), c.options))

\* items.map(item => remoteCollection.unserializeItem(item)): the client item
\* of each storage item, under the item's class name
RemoteItems(c, items) == [k \in 1..Len(items) |-> [class |-> ClassName(c), item |-> items[k]]]

\* the list that drops its last client item
SerializedItems_DropLast(remoteItems) ==
  [k \in 1..(Len(remoteItems) - 1) |-> [class |-> remoteItems[k].class, value |-> remoteItems[k].item]]

\* remoteItems.map(remoteItem => ({class: remoteItem.class.name, value: remoteItem.serialize()}))
SerializedItems(remoteItems) ==
  [k \in 1..Len(remoteItems) |-> [class |-> remoteItems[k].class, value |-> remoteItems[k].item]]

\* the bulk get that reads the body after the authorization
handleGetItemsRequest_AuthorizeFirst(c) ==
  Bind(authorizeRequest(c, "getItems", NoItem), LAMBDA c1 :
  Bind(readBody(c1), LAMBDA c2 :
  Bind(IF c2.err # 0 THEN c2 ELSE Logged(c2, "getItems", "", CollectionName(c2), NoItem, TRUE), LAMBDA c3 :
  Bind(emitEvent(c3, "didGetItems", NoItem), LAMBDA c4 :
    IF c4.err # 0 THEN c4
    ELSE SetBody(SetStatus(c4, 201), ItemsBody(SerializedItems(RemoteItems(c2, getItems(c2, c2.requestBody.ids)))))))))

\* handleGetItemsRequest from collection.getItems on: the body is read and
\* the request authorized
GetItemsAuthorized(c2) ==
  Bind(IF c2.err # 0 THEN c2 ELSE Logged(c2, "getItems", "", CollectionName(c2), NoItem, TRUE), LAMBDA c3 :
  Bind(emitEvent(c3, "didGetItems", NoItem), LAMBDA c4 :
    IF c4.err # 0 THEN c4
    ELSE SetBody(SetStatus(c4, 201),
                 ItemsBody(SerializedItems(RemoteItems(c2, getItems(c2, c2.requestBody.ids)))))))

handleGetItemsRequest(c) ==
  Bind(readBody(c), LAMBDA c1 :
  Bind(authorizeRequest(c1, "getItems", NoItem), LAMBDA c2 :
    GetItemsAuthorized(c2)))

handleFindItemsRequest(c) ==
  Bind(authorizeRequest(c, "findItems", NoItem), LAMBDA c1 :
  Bind(IF c1.err # 0 THEN c1 ELSE Logged(c1, "findItems", "", CollectionName(c1), NoItem, TRUE), LAMBDA c2 :
  Bind(emitEvent(c2, "didFindItems", NoItem), LAMBDA c3 :
    IF c3.err # 0 THEN c3 ELSE SetBody(SetStatus(c3, 200), ItemsBody(SerializedItems(RemoteItems(c1, findItems(c1))))))))

\* the count without its authorizeRequest
handleCountItemsRequest_NoGate(c) ==
  Bind(IF c.err # 0 THEN c ELSE Logged(c, "countItems", "", CollectionName(c), NoItem, TRUE), LAMBDA c2 :
  Bind(emitEvent(c2, "didCountItems", NoItem), LAMBDA c3 :
    IF c3.err # 0 THEN c3 ELSE SetBody(SetStatus(c3, 200), NumBody(countItems(c)))))

\* handleCountItemsRequest from collection.countItems on: the request is authorized
CountItemsAuthorized(c1) ==
  Bind(IF c1.err # 0 THEN c1 ELSE Logged(c1, "countItems", "", CollectionName(c1), NoItem, TRUE), LAMBDA c2 :
  Bind(emitEvent(c2, "didCountItems", NoItem), LAMBDA c3 :
    IF c3.err # 0 THEN c3 ELSE SetBody(SetStatus(c3, 200), NumBody(countItems(c1)))))

handleCountItemsRequest(c) ==
  Bind(authorizeRequest(c, "countItems", NoItem), LAMBDA c1 :
    CountItemsAuthorized(c1))

\* collection.findAndDeleteItems(options) -> deletedItemsCount
\* the bulk delete that empties the collection whatever the options
findAndDeleteItems_All(c) ==
  IF c.err # 0 THEN c
  ELSE LET name == CollectionName(c)
       IN [Logged(c, "findAndDeleteItems", "", name, NoItem, TRUE)
             EXCEPT !.store[name] = [id \in Ids |-> ""]]

findAndDeleteItems(c) ==
  IF c.err # 0 THEN c
  ELSE LET name == CollectionName(c)
           matched == Matching(c.store, name, c.options)
       IN [Logged(c, "findAndDeleteItems", "", name, NoItem, TRUE)
             EXCEPT !.store[name] = [id \in Ids |-> IF id \in matched THEN "" ELSE c.store[name][id]]]

handleFindAndDeleteItemsRequest(c) ==
  Bind(authorizeRequest(c, "findAndDeleteItems", NoItem), LAMBDA c1 :
  Bind(findAndDeleteItems(c1), LAMBDA c2 :
  Bind(emitEvent(c2, "didFindAndDeleteItems", NoItem), LAMBDA c3 :
    LET deletedItemsCount == Cardinality(Matching(c1.store, CollectionName(c1), c1.options))
    IN IF c3.err # 0 THEN c3 ELSE SetBody(c3, NumBody(deletedItemsCount)))))

(***************************************************************************)
(* Custom methods.                                                         *)
(***************************************************************************)
RequestBodyValue(b) ==
  IF b = NoRequestBody THEN NoBody
  ELSE [NoBody EXCEPT !.kind = "echo", !.item = b.item, !.text = b.text,
                      !.items = [i \in 1..Len(b.ids) |-> Item(b.ids[i], "")]]

\* request.collection[method](request.options) and request.item[method](request.options)
CallStorageMethod(c, method, item, onItem) ==
  IF onItem
    THEN ItemBody(ClassName(c), item)
    ELSE NumBody(Cardinality(KeysOf(c.store, CollectionName(c))))

\* the handlers registered by the tests: echo returns the request body,
\* generateReport a text with two headers (no text when the report is empty);
\* the handler registered under the built-in's name getItems returns a text
CallHandler(c, method, item) ==
  IF method = "echo"
    THEN [body |-> RequestBodyValue(c.requestBody), headers |-> {}]
  ELSE IF method = "getItems"
    THEN [body |-> TextBody("custom getItems"), headers |-> {}]
    ELSE [body |-> IF c.request.fault = "emptyReport" THEN NoBody ELSE TextBody("Hello, World!"),
          headers |-> {<<"contentType", "text/plain; charset=utf-8">>,
                       <<"contentDisposition", "inline; filename=\"report.txt\"">>}]

\* the shorthand that forwards the request body instead of the options
Shorthand_ForwardsBody(c, method, item, onItem) ==
  LoggedCall(c, method, IF onItem THEN "item" ELSE "collection", item,
             c.request.fault # "handler", <<c.requestBody>>)

\* the function that stands for a method registered as true:
\* {body: yield request.collection[method](request.options)}, or request.item
Shorthand(c, method, item, onItem) ==
  LoggedCall(c, method, IF onItem THEN "item" ELSE "collection", item,
             c.request.fault # "handler", <<c.options>>)

\* fn.call(this, request); a shorthand on an absent item is a TypeError
_callCustomMethod(c, fn, method, item, onItem) ==
  IF c.err # 0 THEN c
  ELSE LET throws == c.request.fault = "handler" \/ (onItem /\ item = NoItem)
           c1 == Logged(c, "custom", method, fn, item, ~throws)
           c2 == IF fn = "true" /\ ~(onItem /\ item = NoItem)
                   THEN Shorthand(c1, method, item, onItem) ELSE c1
           result == IF fn = "true"
                       THEN [body |-> CallStorageMethod(c, method, item, onItem), headers |-> {}]
                       ELSE CallHandler(c, method, item)
       IN IF throws THEN throw(c2, 500)
          ELSE [c2 EXCEPT !.result = result.body, !.resultHeaders = result.headers]

\* the writer that answers 200 whatever the request method
_writeCustomMethodResult_Always200(c) ==
  IF c.err # 0 THEN c
  ELSE IF c.result.kind = "none" THEN SetStatus(c, 204)
  ELSE Bind(SetStatus(c, 200), LAMBDA c1 :
       Bind([c1 EXCEPT !.headers = @ \cup {<<kebabCase(h[1]), h[2]>> : h \in c.resultHeaders}], LAMBDA c2 :
         SetBody(c2, c.result)))

_writeCustomMethodResult(c) ==
  IF c.err # 0 THEN c
  ELSE IF c.result.kind = "none" THEN SetStatus(c, 204)
  ELSE Bind(SetStatus(c, IF c.method = "POST" THEN 201 ELSE 200), LAMBDA c1 :
       Bind([c1 EXCEPT !.headers = @ \cup {<<kebabCase(h[1]), h[2]>> : h \in c.resultHeaders}], LAMBDA c2 :
         SetBody(c2, c.result)))

handleCustomCollectionMethodRequest(c, method) ==
  LET fn == registeredCollections[c.registeredCollection].collectionMethods[method]
  IN Bind(IF c.method = "POST" THEN readBody(c) ELSE c, LAMBDA c1 :
     Bind(authorizeRequest(c1, method, NoItem), LAMBDA c2 :
     Bind(_callCustomMethod(c2, fn, method, NoItem, FALSE), LAMBDA c3 :
       _writeCustomMethodResult(c3))))

\* the item method that asks for authorization before it looks the item up
handleCustomItemMethodRequest_AuthorizeFirst(c, id, method) ==
  LET fn == registeredCollections[c.registeredCollection].itemMethods[method]
  IN Bind(IF c.method = "POST" THEN readBody(c) ELSE c, LAMBDA c1 :
     Bind(authorizeRequest(c1, method, NoItem), LAMBDA c2 :
     Bind(_getItem(c2, id, "undefined"), LAMBDA c3 :
     Bind(_callCustomMethod(c3, fn, method, c3.item, TRUE), LAMBDA c4 :
       _writeCustomMethodResult(c4)))))

handleCustomItemMethodRequest(c, id, method) ==
  LET fn == registeredCollections[c.registeredCollection].itemMethods[method]
  IN Bind(IF c.method = "POST" THEN readBody(c) ELSE c, LAMBDA c1 :
     Bind(_getItem(c1, id, "undefined"), LAMBDA c2 :
     Bind(authorizeRequest(c2, method, c2.item), LAMBDA c3 :
     Bind(_callCustomMethod(c3, fn, method, c2.item, TRUE), LAMBDA c4 :
       _writeCustomMethodResult(c4)))))

(***************************************************************************)
(* Repository and authorization requests.                                  *)
(***************************************************************************)
handleGetRepositoryIdRequest(c) ==
  Bind(authorizeRequest(c, "getRepositoryId", NoItem), LAMBDA c1 :
  Bind(IF c1.err # 0 THEN c1 ELSE Logged(c1, "getRepositoryId", "", "", NoItem, TRUE), LAMBDA c2 :
    IF c2.err # 0 THEN c2 ELSE SetBody(c2, TextBody("repositoryId"))))

\* the ping that asks the authorize handler first
handlePingRequest_Authorized(c) ==
  Bind(authorizeRequest(c, "ping", NoItem), LAMBDA c1 :
    IF c1.err # 0 THEN c1 ELSE [SetBody(c1, TextBody("pong")) EXCEPT !.logLevel = "silence"])

handlePingRequest(c) == [SetBody(c, TextBody("pong")) EXCEPT !.logLevel = "silence"]

\* the sign-in handler of the source comment: the token for the right credentials
CallSignInWithCredentialsHandler(credentials) ==
  IF credentials = "user@domain.com:password" THEN "secret-token" ELSE ""

handleSignInWithCredentialsRequest(c) ==
  Bind(readBody(c), LAMBDA c1 :
    LET authorization == CallSignInWithCredentialsHandler(c1.requestBody.text)
    IN IF "signInWithCredentialsHandler" \notin c.handlers THEN throw(c1, 500)
       ELSE Bind(Logged(c1, "signInWithCredentialsHandler", c1.requestBody.text, "", NoItem,
                        authorization # ""), LAMBDA c2 :
              IF authorization = "" THEN throw(c2, 403)
              ELSE SetBody(SetStatus(c2, 201), TextBody(authorization))))

\* the sign-in that accepts whatever the handler answers
handleSignInWithAuthorizationRequest_Always204(c, authorization) ==
  LET isOkay == authorization = "secret-token"
      c1 == Logged(c, "signInWithAuthorizationHandler", authorization, "", NoItem, isOkay)
  IN IF "signInWithAuthorizationHandler" \notin c.handlers THEN throw(c, 500)
     ELSE SetStatus(c1, 204)

handleSignInWithAuthorizationRequest(c, authorization) ==
  LET isOkay == authorization = "secret-token"
      c1 == Logged(c, "signInWithAuthorizationHandler", authorization, "", NoItem, isOkay)
  IN IF "signInWithAuthorizationHandler" \notin c.handlers THEN throw(c, 500)
     ELSE IF ~isOkay THEN throw(c1, 403)
     ELSE SetStatus(c1, 204)

\* the sign-out that does not look whether its handler is there
handleSignOutRequest_Unchecked(c, authorization) ==
  IF "signOutHandler" \notin c.handlers THEN SetStatus(c, 204)
  ELSE SetStatus(Logged(c, "signOutHandler", authorization, "", NoItem, TRUE), 204)

handleSignOutRequest(c, authorization) ==
  LET c1 == Logged(c, "signOutHandler", authorization, "", NoItem, TRUE)
  IN IF "signOutHandler" \notin c.handlers THEN throw(c, 500)
     ELSE SetStatus(c1, 204)

\* the rule the authorization sub-router selects
AuthorizationRoute(method, fragment, path) ==
  IF method = "POST" /\ fragment = "" /\ path = <<>> THEN "handleSignInWithCredentialsRequest"
  ELSE IF method = "GET" /\ fragment # "" /\ path = <<>> THEN "handleSignInWithAuthorizationRequest"
  ELSE IF method = "DELETE" /\ fragment # "" /\ path = <<>> THEN "handleSignOutRequest"
  ELSE "next"

\* the leading "/" stripped
Stripped(p) == IF startsWith(p, "/") THEN sliceFrom(p, 1) ELSE p

\* the rule of the authorization sub-router that matches, and its fragment
handleAuthorizationRequest(c, path0) ==
  LET fragment0 == Stripped(path0)
      index == indexOf(fragment0, "/")
      path == IF index # -1 THEN sliceFrom(fragment0, index + 1) ELSE <<>>
      fragment == str(IF index # -1 THEN slice(fragment0, 0, index) ELSE fragment0)
  IN [c EXCEPT !.handler = AuthorizationRoute(c.method, fragment, path), !.fragment1 = fragment]

(***************************************************************************)
(* Dispatch.                                                               *)
(***************************************************************************)
\* the rule table with the generic get-item rule tried before the literal ones
CollectionRoute_GetItemFirst(method, rc, fragment1, fragment2) ==
  LET camelCasedFragment1 == camelCase(fragment1)
      camelCasedFragment2 == camelCase(fragment2)
  IN IF method = "GET" /\ fragment1 # "" /\ fragment2 = ""
       THEN "handleGetItemRequest"
     ELSE IF method = "POST" /\ fragment1 = "get-items" /\ fragment2 = ""
       THEN "handleGetItemsRequest"
     ELSE IF method = "GET" /\ fragment1 = "count" /\ fragment2 = ""
       THEN "handleCountItemsRequest"
     ELSE IF method \in {"GET", "POST"} /\ hasOwnProperty(rc.collectionMethods, camelCasedFragment1) /\ fragment2 = ""
       THEN "handleCustomCollectionMethodRequest"
     ELSE IF method \in {"GET", "POST"} /\ fragment1 # "" /\ hasOwnProperty(rc.itemMethods, camelCasedFragment2)
       THEN "handleCustomItemMethodRequest"
     ELSE IF method = "POST" /\ fragment1 = "" /\ fragment2 = ""
       THEN "handlePostItemRequest"
     ELSE IF method = "PUT" /\ fragment1 # "" /\ fragment2 = ""
       THEN "handlePutItemRequest"
     ELSE IF method = "DELETE" /\ fragment1 # "" /\ fragment2 = ""
       THEN "handleDeleteItemRequest"
     ELSE IF method = "GET" /\ fragment1 = "" /\ fragment2 = ""
       THEN "handleFindItemsRequest"
     ELSE IF method = "DELETE" /\ fragment1 = "" /\ fragment2 = ""
       THEN "handleFindAndDeleteItemsRequest"
     ELSE "next"

\* the rule table whose item-method rule does not ask for an id
CollectionRoute_NoIdNeeded(method, rc, fragment1, fragment2) ==
  LET camelCasedFragment1 == camelCase(fragment1)
      camelCasedFragment2 == camelCase(fragment2)
  IN IF method = "POST" /\ fragment1 = "get-items" /\ fragment2 = ""
       THEN "handleGetItemsRequest"
     ELSE IF method = "GET" /\ fragment1 = "count" /\ fragment2 = ""
       THEN "handleCountItemsRequest"
     ELSE IF method \in {"GET", "POST"} /\ hasOwnProperty(rc.collectionMethods, camelCasedFragment1) /\ fragment2 = ""
       THEN "handleCustomCollectionMethodRequest"
     ELSE IF method \in {"GET", "POST"} /\ hasOwnProperty(rc.itemMethods, camelCasedFragment2)
       THEN "handleCustomItemMethodRequest"
     ELSE IF method = "GET" /\ fragment1 # "" /\ fragment2 = ""
       THEN "handleGetItemRequest"
     ELSE IF method = "POST" /\ fragment1 = "" /\ fragment2 = ""
       THEN "handlePostItemRequest"
     ELSE IF method = "PUT" /\ fragment1 # "" /\ fragment2 = ""
       THEN "handlePutItemRequest"
     ELSE IF method = "DELETE" /\ fragment1 # "" /\ fragment2 = ""
       THEN "handleDeleteItemRequest"
     ELSE IF method = "GET" /\ fragment1 = "" /\ fragment2 = ""
       THEN "handleFindItemsRequest"
     ELSE IF method = "DELETE" /\ fragment1 = "" /\ fragment2 = ""
       THEN "handleFindAndDeleteItemsRequest"
     ELSE "next"

\* the rule table with the custom collection methods tried before the built-ins
CollectionRoute_CustomFirst(method, rc, fragment1, fragment2) ==
  LET camelCasedFragment1 == camelCase(fragment1)
  IN IF method \in {"GET", "POST"} /\ hasOwnProperty(rc.collectionMethods, camelCasedFragment1) /\ fragment2 = ""
       THEN "handleCustomCollectionMethodRequest"
       ELSE CollectionRoute_GetItemFirst(method, rc, fragment1, fragment2)

\* the ordered rule table of handleCollectionRequest: the first rule that matches
CollectionRoute(method, rc, fragment1, fragment2) ==
  LET camelCasedFragment1 == camelCase(fragment1)
      camelCasedFragment2 == camelCase(fragment2)
  IN IF method = "POST" /\ fragment1 = "get-items" /\ fragment2 = ""
       THEN "handleGetItemsRequest"
     ELSE IF method = "GET" /\ fragment1 = "count" /\ fragment2 = ""
       THEN "handleCountItemsRequest"
     ELSE IF method \in {"GET", "POST"} /\ hasOwnProperty(rc.collectionMethods, camelCasedFragment1) /\ fragment2 = ""
       THEN "handleCustomCollectionMethodRequest"
     ELSE IF method \in {"GET", "POST"} /\ fragment1 # "" /\ hasOwnProperty(rc.itemMethods, camelCasedFragment2)
       THEN "handleCustomItemMethodRequest"
     ELSE IF method = "GET" /\ fragment1 # "" /\ fragment2 = ""
       THEN "handleGetItemRequest"
     ELSE IF method = "POST" /\ fragment1 = "" /\ fragment2 = ""
       THEN "handlePostItemRequest"
     ELSE IF method = "PUT" /\ fragment1 # "" /\ fragment2 = ""
       THEN "handlePutItemRequest"
     ELSE IF method = "DELETE" /\ fragment1 # "" /\ fragment2 = ""
       THEN "handleDeleteItemRequest"
     ELSE IF method = "GET" /\ fragment1 = "" /\ fragment2 = ""
       THEN "handleFindItemsRequest"
     ELSE IF method = "DELETE" /\ fragment1 = "" /\ fragment2 = ""
       THEN "handleFindAndDeleteItemsRequest"
     ELSE "next"

\* fragment1 and fragment2 of the path that follows the slug
Fragment1(path) ==
  LET f == Stripped(path)
      index == indexOf(f, "/")
  IN str(IF index # -1 THEN slice(f, 0, index) ELSE f)

Fragment2(path) ==
  LET f == Stripped(path)
      index == indexOf(f, "/")
  IN str(IF index # -1 THEN sliceFrom(f, index + 1) ELSE <<>>)

\* the rule of the collection router that matches, and its fragments
handleCollectionRequest(c, slug, path) ==
  LET registeredCollection == registeredCollections[slug]
      fragment1 == Fragment1(path)
      fragment2 == Fragment2(path)
  IN [c EXCEPT !.registeredCollection = slug,
               !.handler = CollectionRoute(c.method, registeredCollection, fragment1, fragment2),
               !.fragment1 = fragment1, !.fragment2 = fragment2]

\* the dispatch that answers an unknown slug itself
_handleRequest_UnknownIsPing(c, slug, path) ==
  IF slug = "" THEN [c EXCEPT !.handler = "handleGetRepositoryIdRequest"]
  ELSE IF slug = "ping" THEN [c EXCEPT !.handler = "handlePingRequest"]
  ELSE IF slug = "authorizations" THEN handleAuthorizationRequest(c, path)
  ELSE IF slug \in DOMAIN registeredCollections THEN handleCollectionRequest(c, slug, path)
  ELSE [c EXCEPT !.handler = "handlePingRequest"]

_handleRequest(c, slug, path) ==
  IF slug = "" THEN [c EXCEPT !.handler = "handleGetRepositoryIdRequest"]
  ELSE IF slug = "ping" THEN [c EXCEPT !.handler = "handlePingRequest"]
  ELSE IF slug = "authorizations" THEN handleAuthorizationRequest(c, path)
  ELSE IF slug \in DOMAIN registeredCollections THEN handleCollectionRequest(c, slug, path)
  ELSE [c EXCEPT !.handler = "next"]

\* handleRequest that takes the token out of the options
handleRequest_TokenRemoved(c, path0) ==
  LET query == c.querystring
      slug0 == Stripped(path0)
      index == indexOf(slug0, "/")
      path == IF index # -1 THEN sliceFrom(slug0, index) ELSE <<>>
      slug == str(IF index # -1 THEN slice(slug0, 0, index) ELSE slug0)
  IN Bind([c EXCEPT !.options = [query EXCEPT !.authorization = ""],
                    !.authorization = authorizationUnserializer(query)], LAMBDA c1 :
       _handleRequest(c1, slug, path))

handleRequest(c, path0) ==
  LET query == c.querystring
      slug0 == Stripped(path0)
      index == indexOf(slug0, "/")
      path == IF index # -1 THEN sliceFrom(slug0, index) ELSE <<>>
      slug == str(IF index # -1 THEN slice(slug0, 0, index) ELSE slug0)
  IN Bind([c EXCEPT !.options = query, !.authorization = authorizationUnserializer(query)], LAMBDA c1 :
       _handleRequest(c1, slug, path))

\* String.prototype.substr(n) after _.startsWith(path, prefix)
IsPrefix(prefix, path) == Len(prefix) <= Len(path) /\ SubSeq(path, 1, Len(prefix)) = prefix

\* the middleware that takes the prefix off at a segment boundary only
getMiddleware_SegmentBoundary(prefix0, c) ==
  LET prefix == IF endsWith(prefix0, "/") THEN slice(prefix0, 0, Len(prefix0) - 1) ELSE prefix0
      path == c.request.path
      rest == sliceFrom(path, Len(prefix))
  IN IF prefix # <<>> /\ (~IsPrefix(prefix, path) \/ (rest # <<>> /\ rest[1] # "/"))
       THEN [c EXCEPT !.handler = "next"]
       ELSE handleRequest(c, rest)

\* the middleware up to the choice of the handler, which the actions then call
getMiddleware(prefix0, c) ==
  LET prefix == IF endsWith(prefix0, "/") THEN slice(prefix0, 0, Len(prefix0) - 1) ELSE prefix0
      path == c.request.path
  IN IF prefix # <<>> /\ ~IsPrefix(prefix, path)
       THEN [c EXCEPT !.handler = "next"]
       ELSE handleRequest(c, sliceFrom(path, Len(prefix)))

\* koa answers a thrown error with the error's status and no data
Respond(c) ==
  IF c.err # 0
    THEN [c EXCEPT !.status = c.err, !.body = NoBody, !.headers = {}]
    ELSE c

(***************************************************************************)
(* The requests of the model: method, path, decoded query, body, and what  *)
(* the environment does during the request (the key storage assigns to a   *)
(* new item, and at most one failing external call).                       *)
(***************************************************************************)
Prefix == <<"/", "v1">>

Authorizations == {"", "secret-token"}

Query(authorization, errorIfMissing, createIfMissing, start, end) ==
  [authorization |-> authorization, errorIfMissing |-> errorIfMissing,
   createIfMissing |-> createIfMissing, start |-> start, end |-> end]

Req(method, path, query, body, newId, fault) ==
  [method |-> method, path |-> path, query |-> query, body |-> body, newId |-> newId, fault |-> fault]

PlainQueries == {Query(a, "undefined", FALSE, "", "") : a \in Authorizations}

ItemQueries == {Query(a, e, FALSE, "", "") : a \in Authorizations, e \in {"undefined", "true", "false"}}

PutQueries == {Query(a, e, k, "", "") : a \in Authorizations, e \in {"undefined", "true", "false"}, k \in BOOLEAN}

RangeQueries == {Query(a, "undefined", FALSE, r[1], r[2]) :
                   a \in Authorizations, r \in {<<"", "">>, <<"a", "a">>, <<"b", "">>}}

\* the queries of the requests during which an external call fails
FaultQueries == {Query("secret-token", e, k, "", "") : e \in {"undefined", "false"}, k \in BOOLEAN}

ItemBodies == {[NoRequestBody EXCEPT !.item = Item(id, v)] : id \in {"", "a"}, v \in Values}

TextBodyOf(t) == [NoRequestBody EXCEPT !.text = t]

IdLists == UNION {[1..n -> Ids] : n \in 0..MaxBulk}

\* the external calls that may fail during a request to the collection:
\* a listener that throws, a save that fails, a delete that removes nothing
Faults(slug, events, calls) == (events \cap registeredCollections[slug].eventListeners) \cup calls

\* a family of requests: every query and body without a failing call, and
\* every failing call under the queries of FaultQueries
Family(methods, paths, queries, bodies, newIds, faults) ==
  {Req(m, Prefix \o p, q, b, n, "") : m \in methods, p \in paths, q \in queries, b \in bodies, n \in newIds}
    \cup {Req(m, Prefix \o p, q, b, n, f) :
            m \in methods, p \in paths, q \in FaultQueries \cap queries, b \in bodies, n \in newIds, f \in faults}

ItemPaths(slug) == {<<"/", slug, "/", id>> : id \in Ids}

\* requests outside the collections
TopLevelRequests ==
  {Req("GET", <<"/", "other">>, Query("", "undefined", FALSE, "", ""), NoRequestBody, "", "")}
    \cup Family({"GET", "DELETE"},
                {<<>>, <<"/">>, <<"/", "ping">>, <<"/", "authorizations">>,
                 <<"/", "authorizations", "/", "secret-token">>,
                 <<"/", "authorizations", "/", "stale-token">>,
                 <<"/", "authorizations", "/", "secret-token", "/", "x">>,
                 <<"/", "unknown">>, <<"/", "unknown", "/", "a">>},
                PlainQueries, {NoRequestBody}, {""}, {})
    \cup Family({"POST"},
                {<<>>, <<"/", "ping">>, <<"/", "authorizations">>,
                 <<"/", "authorizations", "/", "secret-token">>, <<"/", "unknown">>},
                PlainQueries, {TextBodyOf("user@domain.com:password"), TextBodyOf("guess")}, {""}, {})

GetItemRequests ==
  UNION {Family({"GET"}, ItemPaths(slug), ItemQueries, {NoRequestBody}, {""},
                Faults(slug, {"didGetItem"}, {})) : slug \in Slugs}

DeleteItemRequests ==
  UNION {Family({"DELETE"}, ItemPaths(slug), ItemQueries, {NoRequestBody}, {""},
                Faults(slug, {"willDeleteItem", "didDeleteItem"}, {"delete"})) : slug \in Slugs}

PutItemRequests ==
  UNION {Family({"PUT"}, ItemPaths(slug), PutQueries, ItemBodies, {""},
                Faults(slug, {"willPutItem", "didPutItem"}, {"save"})) : slug \in Slugs}

PostItemRequests ==
  UNION {Family({"POST"}, {<<"/", slug>>}, PlainQueries, ItemBodies, Ids,
                Faults(slug, {"willPutItem", "didPutItem"}, {"save"})) : slug \in Slugs}

CollectionLevelRequests ==
  UNION {Family({"GET", "DELETE"}, {<<"/", slug>>, <<"/", slug, "/", "count">>}, RangeQueries,
                {NoRequestBody}, {""},
                Faults(slug, {"didFindItems", "didCountItems", "didFindAndDeleteItems"}, {}))
           : slug \in Slugs}

GetItemsRequests ==
  UNION {Family({"POST"}, {<<"/", slug, "/", "get-items">>}, PlainQueries,
                {[NoRequestBody EXCEPT !.ids = ids] : ids \in IdLists}, {""},
                Faults(slug, {"didGetItems"}, {})) : slug \in Slugs}

CustomMethodRequests ==
  UNION {Family({"GET", "POST"},
                {<<"/", slug, "/", "count-retired">>, <<"/", slug, "/", "countRetired">>,
                 <<"/", slug, "/", "echo">>, <<"/", slug, "/", "a", "/", "generate-report">>},
                PlainQueries, {TextBodyOf("data")}, {""}, {"handler", "emptyReport"})
           \cup Family({"GET", "POST"}, {<<"/", slug, "/", "a", "/", "get">>},
                       ItemQueries, {TextBodyOf("data")}, {""}, {"handler"})
           \cup Family({"GET"}, {<<"/", slug, "/", "a", "/", "generate-report">>},
                       {Query(a, "false", FALSE, "", "") : a \in Authorizations},
                       {NoRequestBody}, {""}, {})
           \cup Family({"GET", "PUT"},
                       {<<"/", slug, "/", "a", "/", "get", "/", "x">>, <<"/", slug, "/", "a", "/", "zzz">>,
                        <<"/", slug, "/", "/", "a">>, <<"/", slug, "/", "echo">>},
                       {Query("", "undefined", FALSE, "", "")}, {NoRequestBody}, {""}, {})
           : slug \in Slugs}

\* requests whose path segment is, or camel-cases to, the name of a built-in
\* that a collection also registers as a method of its own
CollisionRequests ==
  UNION {Family({"GET", "POST"},
                {<<"/", slug, "/", "count">>, <<"/", slug, "/", "Count">>,
                 <<"/", slug, "/", "get-items">>, <<"/", slug, "/", "getItems">>},
                {Query("secret-token", "undefined", FALSE, "", "")}, {NoRequestBody}, {""}, {})
           : slug \in Slugs}

\* requests whose path has no id where an item rule expects one: the slug
\* with a trailing separator, and a method name after an empty segment
EmptyIdRequests ==
  UNION {Family({"GET", "POST", "PUT", "DELETE"},
                {<<"/", slug, "/">>, <<"/", slug, "/", "/", "get">>},
                {Query("secret-token", "undefined", FALSE, "", "")},
                {[NoRequestBody EXCEPT !.item = Item("a", "Manu")]}, {""}, {})
           : slug \in Slugs}

\* requests whose path goes on after the prefix without a separator
\* (/v1users, /v1users/a, /v1ping), with two of them (/v1//users), or
\* carries another prefix (/v2/users)
PrefixRequests ==
  Family({"GET"}, {<<"users">>, <<"users", "/", "a">>, <<"ping">>, <<"/", "/", "users">>},
         PlainQueries, {NoRequestBody}, {""}, {})
    \cup {Req("GET", <<"/", "v2", "/", "users">>, q, NoRequestBody, "", "") : q \in PlainQueries}

Requests ==
  CollisionRequests \cup EmptyIdRequests \cup PrefixRequests \cup TopLevelRequests \cup GetItemRequests \cup DeleteItemRequests \cup PutItemRequests
    \cup PostItemRequests \cup CollectionLevelRequests \cup GetItemsRequests \cup CustomMethodRequests

(***************************************************************************)
(* The state machine: a request is served as a whole, then answered.       *)
(***************************************************************************)
AllHandlers == {"authorizeHandler", "signInWithCredentialsHandler",
                "signInWithAuthorizationHandler", "signOutHandler"}

EmptyStore == [n \in CollectionNames |-> [id \in Ids |-> ""]]

NoRequest == Req("", <<>>, Query("", "undefined", FALSE, "", ""), NoRequestBody, "", "")

\* what stays of a context once the handlers have returned
Ctx(c) ==
  [method |-> c.method, request |-> c.request, options |-> c.options,
   authorization |-> c.authorization, registeredCollection |-> c.registeredCollection,
   handler |-> c.handler, requestBody |-> c.requestBody, status |-> c.status,
   body |-> c.body, headers |-> c.headers, logLevel |-> c.logLevel,
   err |-> c.err, passed |-> c.passed]

NoContext == Ctx(NewContext(NoRequest, EmptyStore, {}))

\* the context of a request once the middleware has chosen its handler
Routed(req) == getMiddleware(Prefix, NewContext(req, store, handlers))

Init ==
  /\ handlers \in {AllHandlers, {}}
  /\ store = EmptyStore
  /\ phase = "idle"
  /\ ctx = NoContext
  /\ log = <<>>

\* the handler has returned or thrown: koa answers
Reply(c) ==
  \E r \in {Respond(c)} :
    /\ ctx' = Ctx(r)
    /\ store' = r.store
    /\ log' = r.log
    /\ phase' = "done"
    /\ UNCHANGED handlers

HandleGetRepositoryIdRequest ==
  /\ phase = "idle"
  /\ \E req \in Requests : \E c \in {Routed(req)} :
       /\ c.handler = "handleGetRepositoryIdRequest"
       /\ Reply(handleGetRepositoryIdRequest(c))

HandlePingRequest ==
  /\ phase = "idle"
  /\ \E req \in Requests : \E c \in {Routed(req)} :
       /\ c.handler = "handlePingRequest"
       /\ Reply(handlePingRequest(c))

HandleSignInWithCredentialsRequest ==
  /\ phase = "idle"
  /\ \E req \in Requests : \E c \in {Routed(req)} :
       /\ c.handler = "handleSignInWithCredentialsRequest"
       /\ Reply(handleSignInWithCredentialsRequest(c))

HandleSignInWithAuthorizationRequest ==
  /\ phase = "idle"
  /\ \E req \in Requests : \E c \in {Routed(req)} :
       /\ c.handler = "handleSignInWithAuthorizationRequest"
       /\ Reply(handleSignInWithAuthorizationRequest(c, c.fragment1))

HandleSignOutRequest ==
  /\ phase = "idle"
  /\ \E req \in Requests : \E c \in {Routed(req)} :
       /\ c.handler = "handleSignOutRequest"
       /\ Reply(handleSignOutRequest(c, c.fragment1))

HandleGetItemsRequest ==
  /\ phase = "idle"
  /\ \E req \in Requests : \E c \in {Routed(req)} :
       /\ c.handler = "handleGetItemsRequest"
       /\ Reply(handleGetItemsRequest(c))

HandleCountItemsRequest ==
  /\ phase = "idle"
  /\ \E req \in Requests : \E c \in {Routed(req)} :
       /\ c.handler = "handleCountItemsRequest"
       /\ Reply(handleCountItemsRequest(c))

HandleCustomCollectionMethodRequest ==
  /\ phase = "idle"
  /\ \E req \in Requests : \E c \in {Routed(req)} :
       /\ c.handler = "handleCustomCollectionMethodRequest"
       /\ Reply(handleCustomCollectionMethodRequest(c, camelCase(c.fragment1)))

HandleCustomItemMethodRequest ==
  /\ phase = "idle"
  /\ \E req \in Requests : \E c \in {Routed(req)} :
       /\ c.handler = "handleCustomItemMethodRequest"
       /\ Reply(handleCustomItemMethodRequest(c, c.fragment1, camelCase(c.fragment2)))

HandleGetItemRequest ==
  /\ phase = "idle"
  /\ \E req \in Requests : \E c \in {Routed(req)} :
       /\ c.handler = "handleGetItemRequest"
       /\ Reply(handleGetItemRequest(c, c.fragment1))

HandlePostItemRequest ==
  /\ phase = "idle"
  /\ \E req \in Requests : \E c \in {Routed(req)} :
       /\ c.handler = "handlePostItemRequest"
       /\ Reply(handlePostItemRequest(c))

HandlePutItemRequest ==
  /\ phase = "idle"
  /\ \E req \in Requests : \E c \in {Routed(req)} :
       /\ c.handler = "handlePutItemRequest"
       /\ Reply(handlePutItemRequest(c, c.fragment1))

HandleDeleteItemRequest ==
  /\ phase = "idle"
  /\ \E req \in Requests : \E c \in {Routed(req)} :
       /\ c.handler = "handleDeleteItemRequest"
       /\ Reply(handleDeleteItemRequest(c, c.fragment1))

HandleFindItemsRequest ==
  /\ phase = "idle"
  /\ \E req \in Requests : \E c \in {Routed(req)} :
       /\ c.handler = "handleFindItemsRequest"
       /\ Reply(handleFindItemsRequest(c))

HandleFindAndDeleteItemsRequest ==
  /\ phase = "idle"
  /\ \E req \in Requests : \E c \in {Routed(req)} :
       /\ c.handler = "handleFindAndDeleteItemsRequest"
       /\ Reply(handleFindAndDeleteItemsRequest(c))

PassToNext ==
  /\ phase = "idle"
  /\ \E req \in Requests : \E c \in {Routed(req)} :
       /\ c.handler = "next"
       /\ Reply(Next_(c))

\* the response is sent and the context dropped
EndRequest ==
  /\ phase = "done"
  /\ phase' = "idle"
  /\ ctx' = NoContext
  /\ log' = <<>>
  /\ UNCHANGED <<handlers, store>>

Next ==
  \/ HandleGetRepositoryIdRequest
  \/ HandlePingRequest
  \/ HandleSignInWithCredentialsRequest
  \/ HandleSignInWithAuthorizationRequest
  \/ HandleSignOutRequest
  \/ HandleGetItemsRequest
  \/ HandleCountItemsRequest
  \/ HandleCustomCollectionMethodRequest
  \/ HandleCustomItemMethodRequest
  \/ HandleGetItemRequest
  \/ HandlePostItemRequest
  \/ HandlePutItemRequest
  \/ HandleDeleteItemRequest
  \/ HandleFindItemsRequest
  \/ HandleFindAndDeleteItemsRequest
  \/ PassToNext
  \/ EndRequest

Spec == Init /\ [][Next]_vars

TypeOK ==
  /\ phase \in {"idle", "done"}
  /\ handlers \in {AllHandlers, {}}
  /\ store \in [CollectionNames -> [Ids -> Values \cup {""}]]

(***************************************************************************)
(* Requests in flight together.  koa runs one middleware invocation per    *)
(* request, each on its own context object; an invocation can be suspended *)
(* at every yield (body read, authorize handler, storage call) while       *)
(* another one runs.  Here ctx, log and phase hold one value per request   *)
(* slot, and a request advances one yield at a time.  The requests are a   *)
(* bulk get (body, token, collection) and a count (options, token,         *)
(* collection) on a store that holds items.                                *)
(***************************************************************************)
Slots == {"r1", "r2"}

StoredItems ==
  [n \in CollectionNames |->
     [id \in Ids |-> IF n = "Users" THEN (IF id = "a" THEN "Manu" ELSE "Manuel")
                     ELSE (IF id = "a" THEN "Manu" ELSE "")]]

ConcurrentRequests ==
  {Req("POST", Prefix \o <<"/", slug, "/", "get-items">>, Query(a, "undefined", FALSE, "", ""),
       [NoRequestBody EXCEPT !.ids = ids], "", "") :
     slug \in Slugs, a \in Authorizations, ids \in {<<"a">>, <<"b", "a">>}}
    \cup {Req("GET", Prefix \o <<"/", slug, "/", "count">>, Query(a, "undefined", FALSE, r[1], r[2]),
              NoRequestBody, "", "") :
            slug \in Slugs, a \in Authorizations, r \in {<<"", "">>, <<"b", "">>}}

\* the context of a slot without a request
Idle == NewContext(NoRequest, EmptyStore, {})

\* the context an invocation works on: koa's `this` of that invocation,
\* handed on as ctx
ContextOf_Shared(s) ==
  LET t == CHOOSE t \in Slots : t # s
  IN IF phase[t] = "idle" THEN ctx[s]
     ELSE [ctx[s] EXCEPT !.authorization = ctx[t].authorization, !.options = ctx[t].options]

ContextOf(s) == ctx[s]

\* the invocation of slot s has run up to its next yield
Continue(s, c, ph) ==
  /\ ctx' = [ctx EXCEPT ![s] = c]
  /\ log' = [log EXCEPT ![s] = c.log]
  /\ phase' = [phase EXCEPT ![s] = ph]
  /\ UNCHANGED <<store, handlers>>

InitConcurrent ==
  /\ handlers \in {AllHandlers, {}}
  /\ store = StoredItems
  /\ phase = [s \in Slots |-> "idle"]
  /\ ctx = [s \in Slots |-> Idle]
  /\ log = [s \in Slots |-> <<>>]

\* the middleware decodes the query and resolves the collection
ReceiveRequest ==
  \E s \in Slots : \E req \in ConcurrentRequests : \E c \in {Routed(req)} :
    /\ phase[s] = "idle"
    /\ c.handler \in {"handleGetItemsRequest", "handleCountItemsRequest"}
    /\ Continue(s, c, "routed")

ReadRequestBody ==
  \E s \in Slots :
    /\ phase[s] = "routed"
    /\ ctx[s].handler = "handleGetItemsRequest"
    /\ Continue(s, readBody(ContextOf(s)), "read")

\* the gate that remembers the decision it got for the other request
AuthorizeInFlight_Cached ==
  \E s \in Slots :
    /\ \/ phase[s] = "read"
       \/ phase[s] = "routed" /\ ctx[s].handler = "handleCountItemsRequest"
    /\ LET t == CHOOSE t \in Slots : t # s
           decided == {i \in 1..Len(log[t]) : log[t][i].op = "authorize"}
       IN IF decided # {}
            THEN Continue(s, IF \A i \in decided : log[t][i].ok
                               THEN ContextOf(s) ELSE throw(ContextOf(s), 403), "authorized")
            ELSE Continue(s, authorizeRequest(ContextOf(s),
                                              IF ctx[s].handler = "handleGetItemsRequest"
                                                THEN "getItems" ELSE "countItems", NoItem),
                          "authorized")

AuthorizeInFlight ==
  \E s \in Slots :
    /\ \/ phase[s] = "read"
       \/ phase[s] = "routed" /\ ctx[s].handler = "handleCountItemsRequest"
    /\ Continue(s, authorizeRequest(ContextOf(s),
                                    IF ctx[s].handler = "handleGetItemsRequest"
                                      THEN "getItems" ELSE "countItems", NoItem),
                "authorized")

OperateInFlight ==
  \E s \in Slots :
    /\ phase[s] = "authorized"
    /\ Continue(s, Respond(IF ctx[s].handler = "handleGetItemsRequest"
                             THEN GetItemsAuthorized(ContextOf(s))
                             ELSE CountItemsAuthorized(ContextOf(s))),
                "done")

EndInFlight ==
  \E s \in Slots :
    /\ phase[s] = "done"
    /\ Continue(s, Idle, "idle")

NextConcurrent ==
  \/ ReceiveRequest
  \/ ReadRequestBody
  \/ AuthorizeInFlight
  \/ OperateInFlight
  \/ EndInFlight

SpecConcurrent == InitConcurrent /\ [][NextConcurrent]_vars

(***************************************************************************)
(* Deletes in flight together.  handleDeleteItemRequest runs outside any   *)
(* transaction, so between two of its yields (lookup, authorize handler,   *)
(* willDeleteItem listeners, item.delete, didDeleteItem listeners) another *)
(* invocation can run on the same storage.  Each slot holds the context of *)
(* one invocation, suspended at a yield; a step runs it up to the next     *)
(* yield on the storage as it is then.  Every external call returns: a     *)
(* suspended invocation is resumed (weak fairness per slot).               *)
(***************************************************************************)
InFlightRequests ==
  {Req("DELETE", Prefix \o <<"/", "users", "/", id>>, Query(a, e, FALSE, "", ""), NoRequestBody, "", "") :
     id \in Ids, a \in Authorizations, e \in {"undefined", "false"}}
    \cup {Req("DELETE", Prefix \o <<"/", "unknown", "/", "a">>, Query("", "undefined", FALSE, "", ""),
              NoRequestBody, "", ""),
          Req("DELETE", <<"/", "other">>, Query("", "undefined", FALSE, "", ""), NoRequestBody, "", "")}

\* the context of the invocation of slot s, on the storage as it is now
InFlight(s) == [ctx[s] EXCEPT !.store = store]

\* the invocation of slot s has run up to its next yield, or to its end
Proceed(s, c, ph) ==
  /\ ctx' = [ctx EXCEPT ![s] = [(IF c.err # 0 THEN Respond(c) ELSE c) EXCEPT !.store = EmptyStore]]
  /\ log' = [log EXCEPT ![s] = c.log]
  /\ phase' = [phase EXCEPT ![s] = IF c.err # 0 THEN "done" ELSE ph]
  /\ store' = c.store
  /\ UNCHANGED handlers

InitInFlight ==
  /\ handlers \in {AllHandlers, {}}
  /\ store = StoredItems
  /\ phase = [s \in Slots |-> "idle"]
  /\ ctx = [s \in Slots |-> Idle]
  /\ log = [s \in Slots |-> <<>>]

\* the middleware has tested the prefix and the routers have chosen a rule
ReceiveInFlight ==
  \E s \in Slots : \E req \in InFlightRequests : \E c \in {Routed(req)} :
    /\ phase[s] = "idle"
    /\ c.handler \in {"handleDeleteItemRequest", "next"}
    /\ Proceed(s, c, "routed")

\* yield next
PassInFlight ==
  \E s \in Slots :
    /\ phase[s] = "routed"
    /\ ctx[s].handler = "next"
    /\ Proceed(s, Next_(InFlight(s)), "done")

\* let item = yield this._getItem(ctx, id); without an item the body is false
LookupInFlight ==
  \E s \in Slots :
    /\ phase[s] = "routed"
    /\ ctx[s].handler = "handleDeleteItemRequest"
    /\ \E c \in {_getItem(InFlight(s), ctx[s].fragment1, "undefined")} :
       IF c.err = 0 /\ c.item = NoItem
         THEN Proceed(s, SetBody(c, BoolBody(c.hasBeenDeleted)), "done")
         ELSE Proceed(s, c, "found")

\* the gate that asks its handler again after a refusal
AuthorizeDelete_Retry ==
  \E s \in Slots :
    /\ phase[s] = "found"
    /\ \E c \in {authorizeRequest(InFlight(s), "deleteItem", ctx[s].item)} :
       IF c.err # 0 /\ Len(c.log) < 3
         THEN Proceed(s, [c EXCEPT !.err = 0], "found")
         ELSE Proceed(s, c, "authorized")

\* yield this.authorizeRequest(ctx, 'deleteItem', { item })
AuthorizeDelete ==
  \E s \in Slots :
    /\ phase[s] = "found"
    /\ Proceed(s, authorizeRequest(InFlight(s), "deleteItem", ctx[s].item), "authorized")

\* yield this.emitEvent(ctx, 'willDeleteItem', { item })
AnnounceDelete ==
  \E s \in Slots :
    /\ phase[s] = "authorized"
    /\ Proceed(s, emitEvent(InFlight(s), "willDeleteItem", ctx[s].item), "announced")

\* the delete that goes on to didDeleteItem whatever item.delete returned
DeleteInFlight_AlwaysDid ==
  \E s \in Slots :
    /\ phase[s] = "announced"
    /\ Proceed(s, delete(InFlight(s), ctx[s].item), "deleted")

\* hasBeenDeleted = yield item.delete(ctx.options); false ends with that body
DeleteInFlight ==
  \E s \in Slots :
    /\ phase[s] = "announced"
    /\ \E c \in {delete(InFlight(s), ctx[s].item)} :
       IF c.hasBeenDeleted
         THEN Proceed(s, c, "deleted")
         ELSE Proceed(s, SetBody(c, BoolBody(c.hasBeenDeleted)), "done")

\* if (hasBeenDeleted) yield this.emitEvent(ctx, 'didDeleteItem', { item })
ConfirmDelete ==
  \E s \in Slots :
    /\ phase[s] = "deleted"
    /\ \E c \in {emitEvent(InFlight(s), "didDeleteItem", ctx[s].item)} :
       Proceed(s, IF c.err # 0 THEN c ELSE SetBody(c, BoolBody(c.hasBeenDeleted)), "done")

\* the response is sent and the context dropped
EndDelete ==
  \E s \in Slots :
    /\ phase[s] = "done"
    /\ ctx' = [ctx EXCEPT ![s] = Idle]
    /\ log' = [log EXCEPT ![s] = <<>>]
    /\ phase' = [phase EXCEPT ![s] = "idle"]
    /\ UNCHANGED <<store, handlers>>

NextInFlight ==
  \/ ReceiveInFlight
  \/ PassInFlight
  \/ LookupInFlight
  \/ AuthorizeDelete
  \/ AnnounceDelete
  \/ DeleteInFlight
  \/ ConfirmDelete
  \/ EndDelete

\* the external call the invocation of slot s waits for returns
Resume(s) ==
  /\ PassInFlight \/ LookupInFlight \/ AuthorizeDelete \/ AnnounceDelete \/ DeleteInFlight \/ ConfirmDelete
  /\ phase'[s] # phase[s]

SpecInFlight == InitInFlight /\ [][NextInFlight]_vars /\ \A s \in Slots : WF_vars(Resume(s))

(***************************************************************************)
(* What the properties read off a served request.                          *)
(***************************************************************************)
\* the path below the mount prefix, its slug and what follows the slug
Mounted(req) == sliceFrom(req.path, Len(Prefix))

SlugOf(req) ==
  LET p == Stripped(Mounted(req))
      index == indexOf(p, "/")
  IN str(IF index # -1 THEN slice(p, 0, index) ELSE p)

AfterSlug(req) ==
  LET p == Stripped(Mounted(req))
      index == indexOf(p, "/")
  IN IF index # -1 THEN sliceFrom(p, index) ELSE <<>>

Served == phase = "done"

ToCollection == Served /\ IsPrefix(Prefix, ctx.request.path) /\ SlugOf(ctx.request) \in Slugs

Calls(op) == {i \in 1..Len(log) : log[i].op = op}

Rejections == {i \in Calls("authorize") : ~log[i].ok}

MutationCalls == Calls("save") \cup Calls("delete") \cup Calls("findAndDeleteItems")

\* the handler authorizeRequest is to consult for the served request
ApplicableHandler ==
  IF ctx.registeredCollection # "" /\ registeredCollections[ctx.registeredCollection].authorizeHandler # ""
    THEN registeredCollections[ctx.registeredCollection].authorizeHandler
    ELSE IF "authorizeHandler" \in handlers THEN "authorizeHandler" ELSE ""

(***************************************************************************)
(* C1: a request routed to a registered collection gets exactly one        *)
(* outcome, the first rule of the ordered table that matches its method,   *)
(* fragment1 and fragment2; anything else is passed to the next handler.   *)
(***************************************************************************)
C1_Methods(kind) == DOMAIN (IF kind = "collection"
                              THEN registeredCollections[SlugOf(ctx.request)].collectionMethods
                              ELSE registeredCollections[SlugOf(ctx.request)].itemMethods)

C1_Table ==
  LET m == ctx.request.method
      f1 == Fragment1(AfterSlug(ctx.request))
      f2 == Fragment2(AfterSlug(ctx.request))
      rules == <<
        <<m = "POST" /\ f1 = "get-items" /\ f2 = "", "handleGetItemsRequest">>,
        <<m = "GET" /\ f1 = "count" /\ f2 = "", "handleCountItemsRequest">>,
        <<m \in {"GET", "POST"} /\ camelCase(f1) \in C1_Methods("collection") /\ f2 = "",
          "handleCustomCollectionMethodRequest">>,
        <<m \in {"GET", "POST"} /\ f1 # "" /\ camelCase(f2) \in C1_Methods("item"),
          "handleCustomItemMethodRequest">>,
        <<m = "GET" /\ f1 # "" /\ f2 = "", "handleGetItemRequest">>,
        <<m = "POST" /\ f1 = "" /\ f2 = "", "handlePostItemRequest">>,
        <<m = "PUT" /\ f1 # "" /\ f2 = "", "handlePutItemRequest">>,
        <<m = "DELETE" /\ f1 # "" /\ f2 = "", "handleDeleteItemRequest">>,
        <<m = "GET" /\ f1 = "" /\ f2 = "", "handleFindItemsRequest">>,
        <<m = "DELETE" /\ f1 = "" /\ f2 = "", "handleFindAndDeleteItemsRequest">>,
        <<TRUE, "next">> >>
      first == CHOOSE i \in 1..Len(rules) : rules[i][1] /\ \A j \in 1..(i - 1) : ~rules[j][1]
  IN rules[first][2]

C1_FirstMatchingRule ==
  ToCollection =>
    /\ ctx.handler = C1_Table
    /\ ctx.passed = (IF C1_Table = "next" THEN 1 ELSE 0)
    /\ Cardinality(Calls("next")) = ctx.passed

\* GET /{slug}/count went to the count, not to the item 'count'
C1_Witness ==
  /\ ToCollection
  /\ ctx.request.method = "GET"
  /\ Fragment1(AfterSlug(ctx.request)) = "count"
  /\ ctx.handler = "handleCountItemsRequest"
  /\ Calls("countItems") # {}
  /\ Calls("getItem") = {}

(***************************************************************************)
(* C2: a request whose authorization handler answers falsy makes no        *)
(* item.save, item.delete or collection.findAndDeleteItems call and leaves *)
(* the stored items as they were before it.                                *)
(***************************************************************************)
RejectedIn(l) == \E i \in 1..Len(l) : l[i].op = "authorize" /\ ~l[i].ok

MutationsIn(l) == {i \in 1..Len(l) : l[i].op \in {"save", "delete", "findAndDeleteItems"}}

C2_RejectedRequestMutatesNothing ==
  [][(phase = "idle" /\ phase' = "done" /\ RejectedIn(log'))
       => (store' = store /\ MutationsIn(log') = {})]_vars

\* a POST with a wrong token was rejected inside its transaction
C2_Witness ==
  /\ Served
  /\ ctx.handler = "handlePostItemRequest"
  /\ Rejections # {}
  /\ Calls("transaction") # {}
  /\ ctx.status = 403

(***************************************************************************)
(* C3: authorizeRequest asks one handler, the collection's authorizeHandler*)
(* when it is set and the server-wide one otherwise; with neither set no   *)
(* handler is called and no request is refused; the server-wide handler is *)
(* never asked for a collection that has its own.                          *)
(***************************************************************************)
C3_OneApplicableHandler ==
  Served =>
    /\ Cardinality(Calls("authorize")) <= 1
    /\ \A i \in Calls("authorize") : log[i].who = ApplicableHandler /\ log[i].who # ""
    /\ ApplicableHandler = "" => (Calls("authorize") = {} /\ ctx.status # 403)
    /\ (ctx.registeredCollection # "" /\ registeredCollections[ctx.registeredCollection].authorizeHandler # "")
         => \A i \in Calls("authorize") : log[i].who # "authorizeHandler"

\* the collection's handler refused a request while a server-wide handler was set
C3_Witness ==
  /\ Served
  /\ "authorizeHandler" \in handlers
  /\ ctx.registeredCollection = "users"
  /\ \E i \in Rejections : log[i].who = "Users.authorizeHandler"

(***************************************************************************)
(* C4 as stated: when the applicable handler refuses the caller, a GET,    *)
(* PUT, DELETE or item-method request answers 403 whether the id exists or *)
(* not, with or without errorIfMissing=false.                              *)
(***************************************************************************)
Unauthorized == ApplicableHandler # "" /\ ~CallAuthorizeHandler(ApplicableHandler, ctx.authorization)

ItemHandlers == {"handleGetItemRequest", "handlePutItemRequest", "handleDeleteItemRequest",
                 "handleCustomItemMethodRequest"}

Found == \E i \in Calls("getItem") : log[i].ok

C4_Always403 ==
  (Served /\ ctx.handler \in ItemHandlers /\ Unauthorized) => ctx.status = 403

(***************************************************************************)
(* C4 amended: a handler that is asked and refuses always ends the request *)
(* with 403 and no data, whatever the operation; an unauthorized GET, PUT, *)
(* DELETE or item-method request for an id that exists answers 403.  The   *)
(* lookup comes first, so for an absent id the missing-item policy decides *)
(* before the handler is asked.                                            *)
(***************************************************************************)
C4_RejectionIs403 ==
  Served =>
    /\ Rejections # {} => (ctx.status = 403 /\ ctx.body = NoBody)
    /\ (ctx.handler \in ItemHandlers /\ Unauthorized /\ Found) => (Rejections # {} /\ ctx.status = 403)

\* an unauthorized GET of an item that exists was refused
C4_Witness ==
  /\ Served
  /\ ctx.handler = "handleGetItemRequest"
  /\ Unauthorized
  /\ Found
  /\ ctx.status = 403

(***************************************************************************)
(* C5: with an authorization handler configured, a response that carries   *)
(* an item, a list, a count, the repository id or a custom-method result   *)
(* is written only after the handler was asked for that operation and      *)
(* agreed, and every mutation call of the request comes after that.        *)
(***************************************************************************)
C5_Operation ==
  CASE ctx.handler = "handleGetItemRequest" -> "getItem"
    [] ctx.handler \in {"handlePostItemRequest", "handlePutItemRequest"} -> "putItem"
    [] ctx.handler = "handleGetItemsRequest" -> "getItems"
    [] ctx.handler = "handleFindItemsRequest" -> "findItems"
    [] ctx.handler = "handleCountItemsRequest" -> "countItems"
    [] ctx.handler = "handleFindAndDeleteItemsRequest" -> "findAndDeleteItems"
    [] ctx.handler = "handleGetRepositoryIdRequest" -> "getRepositoryId"
    [] ctx.handler = "handleCustomCollectionMethodRequest" -> camelCase(Fragment1(AfterSlug(ctx.request)))
    [] ctx.handler = "handleCustomItemMethodRequest" -> camelCase(Fragment2(AfterSlug(ctx.request)))
    [] OTHER -> ""

C5_AuthorizedBeforeRelease ==
  (Served /\ ApplicableHandler # "") =>
    /\ (C5_Operation # "" /\ ctx.body.kind # "none")
         => \E i \in Calls("authorize") : log[i].ok /\ log[i].name = C5_Operation
    /\ \A j \in MutationCalls : \E i \in Calls("authorize") : i < j /\ log[i].ok

\* a count was answered after the handler agreed to countItems
C5_Witness ==
  /\ Served
  /\ ApplicableHandler # ""
  /\ ctx.handler = "handleCountItemsRequest"
  /\ ctx.body.kind = "number"
  /\ \E i \in Calls("authorize") : log[i].ok /\ log[i].name = "countItems"

(***************************************************************************)
(* C6: every item.save and every item.delete call of a request runs inside *)
(* exactly one collection.transaction call of that request.                *)
(***************************************************************************)
C6_MutationsInOneTransaction ==
  Served => \A i \in Calls("save") \cup Calls("delete") : log[i].tx = 1

(***************************************************************************)
(* C7 as stated: a didPutItem or didDeleteItem listener is called only     *)
(* once the transaction around the mutation has committed, and that        *)
(* mutation is not rolled back afterwards.                                 *)
(***************************************************************************)
DidEvents == {i \in Calls("emit") : log[i].name \in {"didPutItem", "didDeleteItem"} /\ log[i].who = "listener"}

C7_DidAfterCommit ==
  Served => \A i \in DidEvents :
              /\ log[i].tx = 0
              /\ \A k \in Calls("rollback") : k < i

(***************************************************************************)
(* C7 amended: a didPutItem or didDeleteItem listener is called only after *)
(* the storage call it reports (item.save, item.delete) has returned       *)
(* successfully for that item.  didPutItem is emitted inside the still     *)
(* open transaction, so a rollback can follow it.                          *)
(***************************************************************************)
C7_DidAfterStorageCall ==
  Served => \A i \in DidEvents :
              \E j \in 1..(i - 1) :
                /\ log[j].op = (IF log[i].name = "didPutItem" THEN "save" ELSE "delete")
                /\ log[j].ok
                /\ log[j].item.id = log[i].item.id

\* a didPutItem listener was called inside the transaction, threw, and the save was rolled back
C7_Witness ==
  /\ Served
  /\ \E i \in DidEvents :
       /\ log[i].name = "didPutItem"
       /\ log[i].tx = 1
       /\ \E j \in Calls("save") : j < i /\ log[j].ok
       /\ \E k \in Calls("rollback") : k > i

(***************************************************************************)
(* C8: when a step of the create or update transaction fails (the handler  *)
(* refuses, a willPutItem or didPutItem listener throws, the save fails,   *)
(* the lookup of an update answers 404), the store is what it was before   *)
(* the request, the failure reaches the caller and the status is not 2xx.  *)
(***************************************************************************)
StepFailedIn(l) == \E i \in 1..Len(l) : l[i].op \in {"authorize", "emit", "save"} /\ ~l[i].ok

C8_FailureRollsBack ==
  [][(/\ phase = "idle" /\ phase' = "done"
      /\ ctx'.handler \in {"handlePostItemRequest", "handlePutItemRequest"}
      /\ (StepFailedIn(log') \/ ctx'.err = 404))
       => (/\ store' = store
           /\ ctx'.err # 0
           /\ ctx'.status = ctx'.err
           /\ ctx'.status \notin 200..299
           /\ ctx'.body = NoBody)]_vars

\* a didPutItem listener threw after a successful save of a create, and the request failed
C8_Witness ==
  /\ Served
  /\ ctx.handler = "handlePostItemRequest"
  /\ \E j \in Calls("save") : log[j].ok
  /\ \E i \in Calls("emit") : log[i].name = "didPutItem" /\ ~log[i].ok
  /\ ctx.status = 500
  /\ Stored(store, "Users", ctx.request.newId) = NoItem

(***************************************************************************)
(* C9: for every registered collection, POST /{slug}, GET /{slug}/{id},    *)
(* DELETE /{slug}/{id}, GET /{slug}/{id}?errorIfMissing=false, with id the *)
(* identity the POST assigned, answer 201 with the created value and its   *)
(* id, 200 with the same value, 204, and 204 with an empty body.  Each     *)
(* request of the sequence is a step from the store the one before left.   *)
(***************************************************************************)
\* the request is allowed and no external call fails during it
C9_Plain ==
  /\ phase = "idle" /\ phase' = "done"
  /\ ctx'.registeredCollection # ""
  /\ ctx'.request.query.authorization = "secret-token"
  /\ ctx'.request.fault = ""

C9_Name == registeredCollections[ctx'.registeredCollection].name

C9_Id == Fragment1(AfterSlug(ctx'.request))

C9_PostStep ==
  (/\ ctx'.handler = "handlePostItemRequest"
   /\ ctx'.request.body.item.id = ""
   /\ Stored(store, C9_Name, ctx'.request.newId) = NoItem)
    => /\ ctx'.status = 201
       /\ ctx'.body.kind = "item"
       /\ ctx'.body.item.id = ctx'.request.newId
       /\ Stored(store', C9_Name, ctx'.request.newId) = ctx'.body.item

C9_GetStep ==
  (ctx'.handler = "handleGetItemRequest" /\ Stored(store, C9_Name, C9_Id) # NoItem)
    => /\ ctx'.status = 200
       /\ ctx'.body.kind = "item"
       /\ ctx'.body.item = Stored(store, C9_Name, C9_Id)

C9_DeleteStep ==
  (ctx'.handler = "handleDeleteItemRequest" /\ Stored(store, C9_Name, C9_Id) # NoItem)
    => /\ ctx'.status = 204
       /\ Stored(store', C9_Name, C9_Id) = NoItem

C9_GetMissingStep ==
  (/\ ctx'.handler = "handleGetItemRequest"
   /\ Stored(store, C9_Name, C9_Id) = NoItem
   /\ ctx'.request.query.errorIfMissing = "false")
    => /\ ctx'.status = 204
       /\ ctx'.body = NoBody

C9_PostGetDeleteGet ==
  [][C9_Plain => (C9_PostStep /\ C9_GetStep /\ C9_DeleteStep /\ C9_GetMissingStep)]_vars

(***************************************************************************)
(* C10: GET /{slug}/{id} for an id absent from storage answers 404 when    *)
(* the options carry no errorIfMissing or a true one, and 204 with no body *)
(* when they carry errorIfMissing=false (for a caller the handler lets     *)
(* through, no listener throwing); storage's getItem is always called with *)
(* errorIfMissing=false.                                                   *)
(***************************************************************************)
Missing == Calls("getItem") # {} /\ ~Found

C10_MissingItemPolicy ==
  Served =>
    /\ \A i \in Calls("getItem") : log[i].who = "errorIfMissing=false"
    /\ ctx.handler = "handleGetItemRequest" =>
         /\ Cardinality(Calls("getItem")) = 1
         /\ (Missing /\ ctx.options.errorIfMissing \in {"undefined", "true"})
              => (ctx.status = 404 /\ ctx.body = NoBody)
         /\ (Missing /\ ctx.options.errorIfMissing = "false" /\ ~StepFailedIn(log))
              => (ctx.status = 204 /\ ctx.body = NoBody)

\* an absent item was asked for without errorIfMissing and the answer was 404
C10_Witness ==
  /\ Served
  /\ ctx.handler = "handleGetItemRequest"
  /\ Missing
  /\ ctx.options.errorIfMissing = "undefined"
  /\ ctx.status = 404

\* ---------------------------------------------------------------------------
\* C11. For any id absent from storage and any options, DELETE /{slug}/{id}
\* yields the same outcome as GET /{slug}/{id}: a 404 failure by default, and
\* status 204 with no response body when errorIfMissing=false.
C11_DeleteMirrorsGet ==
  (Served /\ ctx.handler = "handleDeleteItemRequest" /\ Missing) =>
    /\ ctx.options.errorIfMissing \in {"undefined", "true"}
         => (ctx.status = 404 /\ ctx.body = NoBody)
    /\ (ctx.options.errorIfMissing = "false" /\ ~StepFailedIn(log))
         => (ctx.status = 204 /\ ctx.body = NoBody)

\* ---------------------------------------------------------------------------
\* C12. PUT /{slug}/{id} on an id absent from storage synthesizes and saves a
\* new item if and only if the options carry a truthy createIfMissing; without
\* createIfMissing no item is ever created by a PUT on a missing id, whatever
\* the value of errorIfMissing, and with errorIfMissing absent or true the
\* request fails with 404.
C12_PutMissing == Served /\ ctx.handler = "handlePutItemRequest" /\ Missing

C12_UpsertOnlyOnCreateIfMissing ==
  C12_PutMissing =>
    /\ ctx.options.createIfMissing
         => \/ StepFailedIn(log)
            \/ (\E i \in Calls("save") : log[i].ok) /\ ctx.status = 200
    /\ ~ctx.options.createIfMissing
         => /\ Calls("save") = {}
            /\ ctx.options.errorIfMissing \in {"undefined", "true"} => ctx.status = 404

\* ---------------------------------------------------------------------------
\* C13. On create and update, any change a willPutItem listener makes to the
\* in-flight item is present both in the item that is saved and in the
\* response body: the response is serialized from the storage item as it is
\* after the listeners and the save, not from the request body.
C13_PutServed ==
  /\ Served
  /\ ctx.handler \in {"handlePostItemRequest", "handlePutItemRequest"}
  /\ ctx.err = 0
  /\ ctx.status \in {200, 201}

C13_WillPutItemChangesKept ==
  C13_PutServed =>
    \E e \in Calls("emit") : \E s \in Calls("save") :
      /\ log[e].name = "willPutItem" /\ e < s /\ log[s].ok
      /\ log[s].item = CallListeners(ctx.registeredCollection, "willPutItem", log[e].item)
      /\ store[CollectionName(ctx)][log[s].item.id] = log[s].item.value
      /\ ctx.body = ItemBody(ClassName(ctx), log[s].item)

\* a listener rewrote the value, and the rewritten value was saved and returned
C13_Witness ==
  /\ C13_PutServed
  /\ ctx.requestBody.item.value = "Manuel"
  /\ ctx.body.item.value = "Manu"
  /\ \E s \in Calls("save") : log[s].ok /\ log[s].item.value = "Manu"

\* ---------------------------------------------------------------------------
\* C14. In every successful create and update request the steps occur in this
\* order, each completing before the next starts: read body, construct the
\* candidate item from the body, authorize('putItem'), emit willPutItem,
\* item.save, emit didPutItem, write the response (201 for create, 200 for
\* update); willPutItem is never emitted after save and didPutItem is never
\* emitted before it.
C14_IsStep(e) == e.op \in {"readBody", "authorize", "emit", "save"}

C14_Label(e) == IF e.op \in {"authorize", "emit"} THEN <<e.op, e.name>> ELSE <<e.op, "">>

C14_Steps == LET l == SelectSeq(log, C14_IsStep) IN [i \in 1..Len(l) |-> C14_Label(l[i])]

C14_Tail == <<<<"emit", "willPutItem">>, <<"save", "">>, <<"emit", "didPutItem">>>>

C14_PutOrder ==
  /\ C13_PutServed =>
       /\ C14_Steps \in {<<<<"readBody", "">>>> \o C14_Tail,
                         <<<<"readBody", "">>, <<"authorize", "putItem">>>> \o C14_Tail}
       /\ \A i \in Calls("authorize") \cup Calls("emit") \cup Calls("save") : log[i].ok
       /\ \A i \in Calls("emit") :
            log[i].name = "willPutItem" => log[i].item.value = ctx.requestBody.item.value
       /\ ctx.status = IF ctx.handler = "handlePostItemRequest" THEN 201 ELSE 200
  /\ (Served /\ ctx.handler \in {"handlePostItemRequest", "handlePutItemRequest"}) =>
       \A i \in Calls("emit") : \A s \in Calls("save") :
         /\ log[i].name = "willPutItem" => i < s
         /\ log[i].name = "didPutItem" => s < i /\ log[s].ok

\* an authorized update ran all its steps
C14_Witness ==
  /\ C13_PutServed
  /\ ctx.handler = "handlePutItemRequest"
  /\ Len(C14_Steps) = 5
  /\ ctx.status = 200

\* ---------------------------------------------------------------------------
\* C15. In a delete request on an existing item the order is
\* authorize('deleteItem'), then willDeleteItem, then item.delete;
\* didDeleteItem is emitted if and only if item.delete reported that it
\* removed something, it is emitted after the delete call, and the response
\* reports that same outcome.
C15_IsStep(e) == e.op \in {"authorize", "emit", "delete"}

C15_Steps == LET l == SelectSeq(log, C15_IsStep) IN [i \in 1..Len(l) |-> <<l[i].op, l[i].name>>]

C15_Id == Fragment1(AfterSlug(ctx.request))

C15_Order ==
  LET auth == <<<<"authorize", "deleteItem">>>>
      full == <<<<"emit", "willDeleteItem">>, <<"delete", C15_Id>>, <<"emit", "didDeleteItem">>>>
  IN {SubSeq(full, 1, n) : n \in 0..3} \cup {auth \o SubSeq(full, 1, n) : n \in 0..3}

C15_Removed == \E d \in Calls("delete") : log[d].ok

C16_AuthorizationTable ==
  LET m == ctx.request.method
      fragment == Fragment1(AfterSlug(ctx.request))
      path == Fragment2(AfterSlug(ctx.request))
  IN IF m = "POST" /\ fragment = "" /\ path = "" THEN "handleSignInWithCredentialsRequest"
     ELSE IF m = "GET" /\ fragment # "" /\ path = "" THEN "handleSignInWithAuthorizationRequest"
     ELSE IF m = "DELETE" /\ fragment # "" /\ path = "" THEN "handleSignOutRequest"
     ELSE "next"

C16_Unrouted ==
  /\ Served
  /\ IsPrefix(Prefix, ctx.request.path)
  /\ \/ SlugOf(ctx.request) \notin {"", "ping", "authorizations"} \cup Slugs
     \/ SlugOf(ctx.request) \in Slugs /\ C1_Table = "next"
     \/ SlugOf(ctx.request) = "authorizations" /\ C16_AuthorizationTable = "next"

C16_PassedUntouched ==
  C16_Unrouted =>
    /\ ctx.passed = 1
    /\ log = <<Entry("next", "", "", NoItem, TRUE, 0)>>
    /\ ctx.err = 0
    /\ ctx.status = 404
    /\ ctx.body = NoBody
    /\ ctx.headers = {}
    /\ ctx.requestBody = NoRequestBody

\* a request to a registered collection that no rule matched was passed on
C16_Witness ==
  /\ C16_Unrouted
  /\ SlugOf(ctx.request) \in Slugs
  /\ ctx.passed = 1

\* ---------------------------------------------------------------------------
\* C17. A request whose first path fragment is 'ping' is answered with body
\* 'pong' without any call to an authorization handler, to storage or to a
\* listener, whatever handlers are configured and whatever they would return.
C17_Ping == Served /\ IsPrefix(Prefix, ctx.request.path) /\ SlugOf(ctx.request) = "ping"

C17_PingIsFree ==
  C17_Ping =>
    /\ ctx.body = TextBody("pong")
    /\ ctx.status = 200
    /\ ctx.err = 0
    /\ log = <<>>

\* the configured authorize handler would have refused the caller
C17_Witness ==
  /\ C17_Ping
  /\ "authorizeHandler" \in handlers
  /\ ~CallAuthorizeHandler("authorizeHandler", ctx.authorization)
  /\ ctx.body = TextBody("pong")

\* ---------------------------------------------------------------------------
\* C18. For a collection or item method registered as the literal true, after
\* authorization succeeds the server calls the storage collection's
\* (respectively the resolved item's) method of the same name exactly once
\* with the request's decoded options as its only argument, and the
\* custom-method result body is exactly that call's return value.
C18_OnItem == ctx.handler = "handleCustomItemMethodRequest"

C18_Method ==
  camelCase(IF C18_OnItem THEN Fragment2(AfterSlug(ctx.request)) ELSE Fragment1(AfterSlug(ctx.request)))

C18_Registered ==
  IF C18_OnItem THEN registeredCollections[ctx.registeredCollection].itemMethods[C18_Method]
  ELSE registeredCollections[ctx.registeredCollection].collectionMethods[C18_Method]

\* a request to a method registered as true that was let through to the call
C18_ShorthandAuthorized ==
  /\ Served
  /\ ctx.handler \in {"handleCustomCollectionMethodRequest", "handleCustomItemMethodRequest"}
  /\ C18_Registered = "true"
  /\ \A i \in Calls("authorize") : log[i].ok
  /\ C18_OnItem => Found

C18_Returned(i) ==
  CallStorageMethod([store |-> store, registeredCollection |-> ctx.registeredCollection],
                    C18_Method, log[i].item, C18_OnItem)

C18_ShorthandForwardsOptions ==
  C18_ShorthandAuthorized =>
    /\ Cardinality(Calls("method")) = 1
    /\ \A i \in Calls("method") :
         /\ log[i].name = C18_Method
         /\ log[i].who = (IF C18_OnItem THEN "item" ELSE "collection")
         /\ C18_OnItem => log[i].item = Item(Fragment1(AfterSlug(ctx.request)),
                                             store[CollectionName(ctx)][Fragment1(AfterSlug(ctx.request))])
         /\ log[i].args = <<ctx.options>>
         /\ \A j \in Calls("authorize") : j < i
         /\ log[i].ok => ctx.body = C18_Returned(i) /\ ctx.status \in {200, 201}

\* the item's own get was called with the options of the query
C18_Witness ==
  /\ C18_ShorthandAuthorized
  /\ C18_OnItem
  /\ Calls("authorize") # {}
  /\ ctx.options.errorIfMissing = "false"
  /\ \E i \in Calls("method") : log[i].ok /\ ctx.body = C18_Returned(i)

\* ---------------------------------------------------------------------------
\* C19. For every custom-method result, the response status is 204 with no
\* body when result.body is absent (null or undefined), otherwise 201 when
\* the request method is POST and 200 when it is GET, with the response body
\* equal to result.body.
C19_Result ==
  LET c == [store |-> store, registeredCollection |-> ctx.registeredCollection,
            requestBody |-> ctx.requestBody, request |-> ctx.request]
      i == CHOOSE i \in Calls("custom") : TRUE
  IN IF C18_Registered = "true" THEN CallStorageMethod(c, C18_Method, log[i].item, C18_OnItem)
     ELSE CallHandler(c, C18_Method, log[i].item).body

\* a custom method returned its result
C19_Returned ==
  /\ Served
  /\ ctx.handler \in {"handleCustomCollectionMethodRequest", "handleCustomItemMethodRequest"}
  /\ \E i \in Calls("custom") : log[i].ok

C19_StatusOfResult ==
  C19_Returned =>
    /\ Cardinality(Calls("custom")) = 1
    /\ C19_Result = NoBody => ctx.status = 204 /\ ctx.body = NoBody
    /\ C19_Result # NoBody =>
         /\ ctx.body = C19_Result
         /\ ctx.method = "POST" => ctx.status = 201
         /\ ctx.method = "GET" => ctx.status = 200

\* echo of a request without a body: nothing to return, 204
C19_Witness ==
  /\ C19_Returned
  /\ C19_Result = NoBody
  /\ ctx.status = 204

\* ---------------------------------------------------------------------------
\* C20. For every custom-method result that declares headers, each declared
\* header is set on the response under its kebab-cased name with the declared
\* value; this holds for every result, including one whose body is absent.
C20_Declared ==
  LET c == [requestBody |-> ctx.requestBody, request |-> ctx.request]
      i == CHOOSE i \in Calls("custom") : TRUE
  IN IF C18_Registered = "true" THEN {} ELSE CallHandler(c, C18_Method, log[i].item).headers

C20_DeclaredHeadersSet ==
  C19_Returned => \A h \in C20_Declared : <<kebabCase(h[1]), h[2]>> \in ctx.headers

\* ---------------------------------------------------------------------------
\* C21. A custom method registered under identifier N is selected by URL
\* fragment f exactly when camelCase(f) = N: a method registered as
\* countRetired is selected by /count-retired as well as by /countRetired, and
\* the operation name passed to the authorization handler and used for the
\* shorthand call is N, not the raw fragment.
C21_Custom == {"handleCustomCollectionMethodRequest", "handleCustomItemMethodRequest"}

C21_F1 == Fragment1(AfterSlug(ctx.request))

C21_F2 == Fragment2(AfterSlug(ctx.request))

\* the request is one the custom-method rules are tried on: GET or POST that
\* neither of the two rules before them (get-items, count) takes
C21_Eligible ==
  /\ ToCollection
  /\ ctx.request.method \in {"GET", "POST"}
  /\ ~(ctx.request.method = "POST" /\ C21_F1 = "get-items" /\ C21_F2 = "")
  /\ ~(ctx.request.method = "GET" /\ C21_F1 = "count" /\ C21_F2 = "")

C21_CollectionMethods == DOMAIN registeredCollections[SlugOf(ctx.request)].collectionMethods

C21_ItemMethods == DOMAIN registeredCollections[SlugOf(ctx.request)].itemMethods

C21_NamedN(n) ==
  /\ \A i \in Calls("custom") \cup Calls("method") : log[i].name = n
  /\ \A i \in Calls("authorize") : log[i].name = n

C21_SelectedByCamelCase ==
  C21_Eligible =>
    /\ ctx.handler = "handleCustomCollectionMethodRequest"
         <=> (C21_F2 = "" /\ camelCase(C21_F1) \in C21_CollectionMethods)
    /\ (ctx.handler = "handleCustomItemMethodRequest"
          /\ ~(C21_F2 = "" /\ camelCase(C21_F1) \in C21_CollectionMethods))
         <=> (C21_F1 # "" /\ camelCase(C21_F2) \in C21_ItemMethods
                /\ ~(C21_F2 = "" /\ camelCase(C21_F1) \in C21_CollectionMethods))
    /\ ctx.handler = "handleCustomCollectionMethodRequest" => C21_NamedN(camelCase(C21_F1))
    /\ ctx.handler = "handleCustomItemMethodRequest" => C21_NamedN(camelCase(C21_F2))
    /\ (C21_F1 \in {"count-retired", "countRetired"} /\ C21_F2 = ""
          /\ "countRetired" \in C21_CollectionMethods)
         => ctx.handler = "handleCustomCollectionMethodRequest" /\ C21_NamedN("countRetired")
    /\ (C21_F1 # "" /\ C21_F2 = "generate-report" /\ "generateReport" \in C21_ItemMethods)
         => ctx.handler = "handleCustomItemMethodRequest" /\ C21_NamedN("generateReport")

\* /count-retired reached countRetired, authorized and called under that name
C21_Witness ==
  /\ C21_Eligible
  /\ C21_F1 = "count-retired"
  /\ \E i \in Calls("authorize") : log[i].name = "countRetired" /\ log[i].ok
  /\ \E i \in Calls("method") : log[i].name = "countRetired"

\* ---------------------------------------------------------------------------
\* C22. In a custom item-method request the order is: (POST only) read body,
\* resolve the item by id and fail with 404 if it is missing and required,
\* authorize(methodName, {item}), run the handler; the handler never runs
\* before authorization has succeeded and authorization never runs before the
\* item lookup has completed.
C22_IsStep(e) == e.op \in {"readBody", "getItem", "authorize", "custom"}

C22_Steps == LET l == SelectSeq(log, C22_IsStep) IN [i \in 1..Len(l) |-> l[i].op]

C22_Full == <<"getItem", "authorize", "custom">>

C22_Gated == ApplicableHandler # ""

C22_ItemMethodOrder ==
  (Served /\ ctx.handler = "handleCustomItemMethodRequest") =>
    LET body == IF ctx.method = "POST" THEN <<"readBody">> ELSE <<>>
        rest == IF C22_Gated THEN C22_Full ELSE <<"getItem", "custom">>
    IN /\ \E n \in 1..Len(rest) : C22_Steps = body \o SubSeq(rest, 1, n)
       /\ \A i \in Calls("getItem") : log[i].name = C21_F1
       /\ (Missing /\ ctx.options.errorIfMissing \in {"undefined", "true"})
            => ctx.status = 404 /\ Calls("authorize") = {} /\ Calls("custom") = {}
       /\ \A a \in Calls("authorize") :
            /\ log[a].name = camelCase(C21_F2)
            /\ \E g \in Calls("getItem") : g < a /\ log[a].item = log[g].item
       /\ \A h \in Calls("custom") :
            /\ \A a \in Calls("authorize") : a < h /\ log[a].ok
            /\ C22_Gated => Calls("authorize") # {}

\* a POST to an item method went through its four steps
C22_Witness ==
  /\ Served /\ ctx.handler = "handleCustomItemMethodRequest"
  /\ C22_Steps = <<"readBody", "getItem", "authorize", "custom">>
  /\ ctx.status = 201

\* ---------------------------------------------------------------------------
\* C23. Within one request the body is read at most once; it is read in
\* create, update, bulk get, sign-in with credentials and POST custom methods,
\* and it is never read in any GET or DELETE request; when it is read, the
\* read completes before authorization and before any storage call of that
\* request.
C23_Reading ==
  \/ ctx.handler \in {"handlePostItemRequest", "handlePutItemRequest", "handleGetItemsRequest",
                      "handleSignInWithCredentialsRequest"}
  \/ ctx.handler \in C21_Custom /\ ctx.method = "POST"

C23_BodyReadOnceAndFirst ==
  Served =>
    /\ Cardinality(Calls("readBody")) = (IF C23_Reading THEN 1 ELSE 0)
    /\ ctx.method \in {"GET", "DELETE"} => Calls("readBody") = {}
    /\ Calls("readBody") \subseteq {1}
    /\ Calls("readBody") = {} => ctx.requestBody = NoRequestBody
    /\ Calls("readBody") # {} => ctx.requestBody = ctx.request.body

\* a bulk get read its body, then asked the authorize handler, then the storage
C23_Witness ==
  /\ Served
  /\ ctx.handler = "handleGetItemsRequest"
  /\ Len(log) >= 3
  /\ log[1].op = "readBody" /\ log[2].op = "authorize" /\ log[3].op = "getItems"

\* ---------------------------------------------------------------------------
\* C24. On the authorization sub-routes: POST /authorizations returns 201
\* with the token when signInWithCredentialsHandler yields a truthy token and
\* fails with 403 otherwise; GET /authorizations/{token} returns 204 when
\* signInWithAuthorizationHandler yields truthy and fails with 403 otherwise;
\* DELETE /authorizations/{token} invokes signOutHandler with that token
\* exactly once and returns 204; none of these calls the authorizeHandler
\* gate.
C24_Routes ==
  [handleSignInWithCredentialsRequest |-> "signInWithCredentialsHandler",
   handleSignInWithAuthorizationRequest |-> "signInWithAuthorizationHandler",
   handleSignOutRequest |-> "signOutHandler"]

\* a request to an authorization sub-route whose handler is configured
C24_Configured ==
  /\ Served
  /\ ctx.handler \in DOMAIN C24_Routes
  /\ C24_Routes[ctx.handler] \in handlers

C24_Token == Fragment1(AfterSlug(ctx.request))

C24_AuthorizationRoutes ==
  C24_Configured =>
    /\ Calls("authorize") = {}
    /\ Cardinality(Calls(C24_Routes[ctx.handler])) = 1
    /\ \A i \in Calls(C24_Routes[ctx.handler]) :
         /\ ctx.handler = "handleSignInWithCredentialsRequest" =>
              /\ log[i].name = ctx.request.body.text
              /\ log[i].ok = (CallSignInWithCredentialsHandler(ctx.request.body.text) # "")
              /\ log[i].ok => /\ ctx.status = 201
                              /\ ctx.body = TextBody(CallSignInWithCredentialsHandler(ctx.request.body.text))
              /\ ~log[i].ok => ctx.status = 403 /\ ctx.body = NoBody
         /\ ctx.handler = "handleSignInWithAuthorizationRequest" =>
              /\ log[i].name = C24_Token
              /\ log[i].ok => ctx.status = 204 /\ ctx.body = NoBody
              /\ ~log[i].ok => ctx.status = 403 /\ ctx.body = NoBody
         /\ ctx.handler = "handleSignOutRequest" =>
              /\ log[i].name = C24_Token
              /\ ctx.status = 204 /\ ctx.body = NoBody

\* a stale token was refused although no authorize handler was asked
C24_Witness ==
  /\ C24_Configured
  /\ ctx.handler = "handleSignInWithAuthorizationRequest"
  /\ C24_Token = "stale-token"
  /\ ctx.status = 403

\* ---------------------------------------------------------------------------
\* C25. A request to an authorization sub-route whose handler
\* (signInWithCredentialsHandler, signInWithAuthorizationHandler or
\* signOutHandler) was not configured always ends in an uncaught error: it is
\* never answered with 2xx, never turned into a 403 and never passed to the
\* next handler.
C25_Unconfigured ==
  /\ Served
  /\ ctx.handler \in DOMAIN C24_Routes
  /\ C24_Routes[ctx.handler] \notin handlers

C25_UnconfiguredIsFatal ==
  C25_Unconfigured =>
    /\ ctx.err = 500
    /\ ctx.status = 500
    /\ ctx.body = NoBody
    /\ ctx.passed = 0
    /\ Calls("next") = {}
    /\ Calls(C24_Routes[ctx.handler]) = {}

\* a sign-out on a server without signOutHandler failed
C25_Witness ==
  /\ C25_Unconfigured
  /\ ctx.handler = "handleSignOutRequest"
  /\ ctx.status = 500

\* ---------------------------------------------------------------------------
\* C26. Once a request has failed with 403 (authorization rejected) or 404
\* (required item missing), it performs no further external call: no storage
\* operation, no event listener, no custom handler, and no later write of a
\* 2xx status or body.
C26_Rejecting(e) ==
  e.op \in {"authorize", "signInWithCredentialsHandler", "signInWithAuthorizationHandler"} /\ ~e.ok

\* the lookup of the request was for an item that had to be there
C26_Required ==
  /\ ctx.options.errorIfMissing \in {"undefined", "true"}
  /\ ctx.handler = "handlePutItemRequest" => ~ctx.options.createIfMissing

\* after entry i the log holds nothing but the storage undoing the transaction
C26_NothingAfter(i) == \A j \in (i + 1)..Len(log) : log[j].op = "rollback"

C26_FailureEndsRequest ==
  Served =>
    /\ \A i \in 1..Len(log) : C26_Rejecting(log[i]) =>
         /\ C26_NothingAfter(i)
         /\ ctx.status = 403 /\ ctx.body = NoBody /\ ctx.headers = {}
    /\ \A i \in Calls("getItem") : (~log[i].ok /\ C26_Required) =>
         /\ C26_NothingAfter(i)
         /\ ctx.status = 404 /\ ctx.body = NoBody /\ ctx.headers = {}
    /\ ctx.err = 403 => \E i \in 1..Len(log) : C26_Rejecting(log[i])
    /\ ctx.err = 404 => \E i \in Calls("getItem") : ~log[i].ok /\ C26_Required

\* an update of a missing item stopped at the lookup, inside its transaction
C26_Witness ==
  /\ Served
  /\ ctx.handler = "handlePutItemRequest"
  /\ ctx.status = 404
  /\ \E i \in Calls("getItem") : ~log[i].ok /\ i < Len(log) /\ C26_NothingAfter(i)

\* ---------------------------------------------------------------------------
\* C27. After a successful DELETE /{slug} with options O, the store contains
\* exactly the items that were present before and did not match O; a
\* subsequent count without options equals the previous total minus the
\* number of matched items, and didFindAndDeleteItems is emitted once, after
\* the storage call.
C27_Name == registeredCollections[ctx'.registeredCollection].name

C27_Matched == Matching(store, C27_Name, ctx'.options)

C27_NoOptions == Query("", "undefined", FALSE, "", "")

C27_CountAfter ==
  countItems([store |-> store', registeredCollection |-> ctx'.registeredCollection,
              options |-> C27_NoOptions])

C27_Step ==
  (phase = "idle" /\ ctx'.handler = "handleFindAndDeleteItemsRequest" /\ ctx'.err = 0) =>
    /\ \A id \in Ids :
         store'[C27_Name][id] = (IF id \in C27_Matched THEN "" ELSE store[C27_Name][id])
    /\ \A n \in CollectionNames \ {C27_Name} : store'[n] = store[n]
    /\ C27_CountAfter = Cardinality(KeysOf(store, C27_Name)) - Cardinality(C27_Matched)
    /\ \E d \in 1..Len(log') : \E e \in 1..Len(log') :
         /\ log'[d].op = "findAndDeleteItems" /\ log'[e].op = "emit"
         /\ log'[e].name = "didFindAndDeleteItems"
         /\ d < e
         /\ \A k \in 1..Len(log') :
              /\ log'[k].op = "findAndDeleteItems" => k = d
              /\ log'[k].op = "emit" => k = e

C27_FindAndDeleteRemovesMatched == [][C27_Step]_vars

\* one of two stored items matched the range and was removed, the other stayed
C27_Witness ==
  /\ Served
  /\ ctx.handler = "handleFindAndDeleteItemsRequest"
  /\ ctx.err = 0
  /\ ctx.body = NumBody(1)
  /\ Cardinality(KeysOf(store, CollectionName(ctx))) = 1

\* ---------------------------------------------------------------------------
\* C28. For any options O and any store state, with no mutation in between,
\* the integer returned by GET /{slug}/count with O equals the length of the
\* list returned by GET /{slug} with the same O, because both forward the
\* same decoded options unchanged to the storage collection.
C28_Counted == Served /\ ctx.handler = "handleCountItemsRequest" /\ ctx.err = 0

\* the find request with the query of the count request, on the same store,
\* none of its listeners throwing
C28_FindRequest ==
  [ctx.request EXCEPT !.path = Prefix \o <<"/", SlugOf(ctx.request)>>, !.fault = ""]

C28_Found ==
  LET c == Routed(C28_FindRequest)
  IN IF c.handler = "handleFindItemsRequest" THEN Respond(handleFindItemsRequest(c)) ELSE c

C28_CountIsFindLength ==
  C28_Counted =>
    /\ C28_Found.handler = "handleFindItemsRequest"
    /\ C28_Found.options = ctx.options
    /\ C28_Found.status = 200
    /\ C28_Found.body.kind = "items"
    /\ ctx.status = 200
    /\ ctx.body = NumBody(Len(C28_Found.body.items))

\* a range that holds one of the two stored items: count 1, list of length 1
C28_Witness ==
  /\ C28_Counted
  /\ ctx.options.start # ""
  /\ Cardinality(KeysOf(store, CollectionName(ctx))) = 2
  /\ ctx.body = NumBody(1)
  /\ Len(C28_Found.body.items) = 1

\* ---------------------------------------------------------------------------
\* C29. For find (200) and bulk get (201), the response body is a list with
\* the same length and the same order as the list returned by storage, its
\* k-th element being the {class, value} client representation of the k-th
\* storage item; no item is dropped, duplicated or reordered.
C29_Listed ==
  /\ Served
  /\ ctx.handler \in {"handleFindItemsRequest", "handleGetItemsRequest"}
  /\ ctx.err = 0

\* the list the storage returned to the request (the store is as it was)
C29_FromStorage ==
  LET c == [store |-> store, registeredCollection |-> ctx.registeredCollection, options |-> ctx.options]
  IN IF ctx.handler = "handleFindItemsRequest" THEN findItems(c) ELSE getItems(c, ctx.requestBody.ids)

C30_Alone(s) ==
  LET c == Routed(ctx[s].request)
  IN Respond(IF c.handler = "handleGetItemsRequest"
               THEN handleGetItemsRequest(c) ELSE handleCountItemsRequest(c))

C30_Own(s) ==
  /\ ctx[s].options = ctx[s].request.query
  /\ ctx[s].authorization = authorizationUnserializer(ctx[s].request.query)
  /\ ctx[s].registeredCollection = SlugOf(ctx[s].request)
  /\ ctx[s].requestBody \in {NoRequestBody, ctx[s].request.body}
  /\ \A i \in 1..Len(log[s]) : log[s][i].op = "authorize" =>
       log[s][i].ok = CallAuthorizeHandler(log[s][i].who, ctx[s].request.query.authorization)
  /\ phase[s] = "done" =>
       /\ Ctx(ctx[s]) = Ctx(C30_Alone(s))
       /\ log[s] = C30_Alone(s).log

C30_RequestsDoNotShare == \A s \in Slots : phase[s] # "idle" => C30_Own(s)

\* two requests to the same collection were in flight together; the one with
\* the token was answered, the one without was refused
C30_Witness ==
  /\ phase["r1"] = "done" /\ phase["r2"] = "done"
  /\ ctx["r1"].registeredCollection = "users" /\ ctx["r2"].registeredCollection = "users"
  /\ ctx["r1"].authorization = "secret-token" /\ ctx["r2"].authorization = ""
  /\ ctx["r1"].status = 201 /\ ctx["r2"].status = 403

\* ---------------------------------------------------------------------------
\* C31. Provided every external call returns, every received request ends
\* after finitely many steps with exactly one outcome: a written response, a
\* propagated failure, or a pass to the next handler; until then it has no
\* outcome, and no external call is made twice for the same step of the
\* request.
C31_Failure(s) == ctx[s].err # 0

C31_Passed(s) == ctx[s].passed > 0

C31_Written(s) == ctx[s].body.kind # "none" \/ ctx[s].explicitStatus

C31_Outcomes(s) ==
  {o \in {"failure", "passed", "written"} :
     \/ o = "failure" /\ C31_Failure(s)
     \/ o = "passed" /\ C31_Passed(s)
     \/ o = "written" /\ C31_Written(s)}

C31_NoCallTwice(s) ==
  \A i, j \in 1..Len(log[s]) :
    i # j => <<log[s][i].op, log[s][i].name>> # <<log[s][j].op, log[s][j].name>>

C31_OneOutcome ==
  \A s \in Slots :
    /\ C31_NoCallTwice(s)
    /\ Len(log[s]) <= 5
    /\ ctx[s].passed <= 1
    /\ phase[s] = "done" => Cardinality(C31_Outcomes(s)) = 1
    /\ phase[s] # "done" => C31_Outcomes(s) = {}

C32_Handler(s) ==
  IF registeredCollections[ctx[s].registeredCollection].authorizeHandler # ""
    THEN registeredCollections[ctx[s].registeredCollection].authorizeHandler
    ELSE IF "authorizeHandler" \in handlers THEN "authorizeHandler" ELSE ""

C32_Decisions(s) == {i \in 1..Len(log[s]) : log[s][i].op = "authorize"}

C32_GateKeepsNoState ==
  \A s \in Slots :
    /\ phase[s] \in {"routed", "read"} => C32_Decisions(s) = {}
    /\ phase[s] \in {"authorized", "done"} =>
         IF C32_Handler(s) = "" THEN C32_Decisions(s) = {}
         ELSE /\ Cardinality(C32_Decisions(s)) = 1
              /\ \A i \in C32_Decisions(s) :
                   /\ log[s][i].who = C32_Handler(s)
                   /\ log[s][i].ok = CallAuthorizeHandler(C32_Handler(s), ctx[s].request.query.authorization)
                   /\ ~log[s][i].ok => ctx[s].err = 403

\* the same request was made twice and the handler was asked each time
C32_Witness ==
  /\ phase["r1"] = "done" /\ phase["r2"] = "done"
  /\ ctx["r1"].request = ctx["r2"].request
  /\ C32_Handler("r1") # ""
  /\ Cardinality(C32_Decisions("r1")) = 1 /\ Cardinality(C32_Decisions("r2")) = 1
  /\ ctx["r1"].status = 200 /\ ctx["r2"].status = 200

\* ---------------------------------------------------------------------------
\* C33. On an update the authorization handler is called with the item as
\* the lookup read it from storage, before the incoming values are applied:
\* the call follows the lookup directly and precedes willPutItem and the
\* save, which carry the updated item; after a refusal nothing follows the
\* call but the end of the transaction, and the storage is as it was.
C33_Update == Served /\ ctx.handler = "handlePutItemRequest"

C33_Asked == {i \in Calls("authorize") : log[i].name = "putItem"}

C33_Applied == {i \in 1..Len(log) : log[i].op = "save" \/ (log[i].op = "emit" /\ log[i].name = "willPutItem")}

C33_AuthorizedBeforeUpdate ==
  C33_Update =>
    \A i \in C33_Asked :
      /\ i > 1 /\ log[i - 1].op = "getItem"
      /\ log[i].item = log[i - 1].item
      /\ \A j \in C33_Applied : j > i
      /\ ~log[i].ok =>
           /\ C33_Applied = {}
           /\ log[i].item = Stored(store, CollectionName(ctx), log[i - 1].name)
           /\ \A j \in (i + 1)..Len(log) : log[j].op = "rollback"
           /\ ctx.status = 403

\* an update of a stored item was authorized on the stored value and saved
\* the incoming one
C33_Witness ==
  /\ C33_Update
  /\ \E i \in C33_Asked : \E j \in Calls("save") :
       /\ log[i].ok /\ log[j].ok
       /\ log[i].item # NoItem
       /\ log[i].item.id = log[j].item.id
       /\ log[i].item.value # log[j].item.value

\* ---------------------------------------------------------------------------
\* C34. Precedence when a collection registers a method under the name of a
\* built-in.  GET /{slug}/count runs the built-in count and POST
\* /{slug}/get-items the built-in bulk get whatever the collection
\* registers; the registered count or getItems is reached through the other
\* verb, or through the built-in's verb when the path segment is another
\* spelling that camel-cases to the name; and GET /{slug}/{id} never looks
\* up an item whose id is 'count' or camel-cases to a registered
\* collection-method name.
C34_F1 == Fragment1(AfterSlug(ctx.request))

C34_OneSegment == ToCollection /\ Fragment2(AfterSlug(ctx.request)) = ""

C34_Registered == DOMAIN registeredCollections[SlugOf(ctx.request)].collectionMethods

C34_Custom == ctx.handler = "handleCustomCollectionMethodRequest"

\* the verb and the literal segment of the built-in that has the name n
C34_BuiltIn(n) ==
  \/ n = "count" /\ ctx.method = "GET" /\ C34_F1 = "count"
  \/ n = "getItems" /\ ctx.method = "POST" /\ C34_F1 = "get-items"

\* the registered method is reached only through the other verb
C34_OnlyOtherVerb ==
  C34_OneSegment /\ C34_Custom =>
    /\ camelCase(C34_F1) = "count" => ctx.method = "POST"
    /\ camelCase(C34_F1) = "getItems" => ctx.method = "GET"

C34_BuiltInsKeepTheirRoute ==
  C34_OneSegment =>
    /\ C34_BuiltIn("count") =>
         ctx.handler = "handleCountItemsRequest" /\ Calls("custom") = {}
    /\ C34_BuiltIn("getItems") =>
         ctx.handler = "handleGetItemsRequest" /\ Calls("custom") = {}
    /\ \A n \in {"count", "getItems"} :
         (ctx.method \in {"GET", "POST"} /\ camelCase(C34_F1) = n /\ n \in C34_Registered) =>
           (C34_Custom <=> ~C34_BuiltIn(n))
    /\ (ctx.method = "GET" /\ (C34_F1 = "count" \/ camelCase(C34_F1) \in C34_Registered)) =>
         /\ ctx.handler # "handleGetItemRequest"
         /\ Calls("getItem") = {}

\* the claim as first stated: the above, and the other verb as the only way
C34_AsStated == C34_BuiltInsKeepTheirRoute /\ C34_OnlyOtherVerb

\* the registered count was reached with the built-in's verb under the
\* spelling Count
C34_Witness ==
  /\ C34_OneSegment /\ C34_Custom
  /\ ctx.method = "GET" /\ C34_F1 = "Count"
  /\ \E i \in Calls("custom") : log[i].name = "count" /\ log[i].ok
  /\ ctx.status = 200

\* ---------------------------------------------------------------------------
\* C35. DELETE requests for the same stored id in flight together: each may
\* find the item, be authorized and emit willDeleteItem, but didDeleteItem
\* is emitted only by a request whose item.delete returned true, directly
\* after that call; as the storage reports a removal to one caller only, the
\* requests in flight emit didDeleteItem at most once for an item that was
\* removed and never for one that was not, however many emitted
\* willDeleteItem.
C35_Emitted(s, event, id) ==
  {i \in 1..Len(log[s]) : log[s][i].op = "emit" /\ log[s][i].name = event /\ log[s][i].item.id = id}

C35_Removed(id) == StoredItems["Users"][id] # "" /\ store["Users"][id] = ""

C35_DidOnlyAfterRemoval ==
  /\ \A s \in Slots : \A i \in 1..Len(log[s]) :
       (log[s][i].op = "emit" /\ log[s][i].name = "didDeleteItem") =>
         /\ i > 1
         /\ log[s][i - 1].op = "delete" /\ log[s][i - 1].ok
         /\ log[s][i - 1].item = log[s][i].item
  /\ \A id \in Ids :
       Cardinality({s \in Slots : C35_Emitted(s, "didDeleteItem", id) # {}})
         <= (IF C35_Removed(id) THEN 1 ELSE 0)
  /\ \A s \in Slots : phase[s] = "done" /\ ctx[s].body.kind = "boolean" =>
       (ctx[s].body.flag <=> \E id \in Ids : C35_Emitted(s, "didDeleteItem", id) # {})

\* two requests for the item a were both authorized and both emitted
\* willDeleteItem; one removed the item and emitted didDeleteItem, the other
\* was told by the storage that nothing was removed
C35_Witness ==
  /\ phase["r1"] = "done" /\ phase["r2"] = "done"
  /\ C35_Emitted("r1", "willDeleteItem", "a") # {} /\ C35_Emitted("r2", "willDeleteItem", "a") # {}
  /\ C35_Emitted("r1", "didDeleteItem", "a") # {} /\ C35_Emitted("r2", "didDeleteItem", "a") = {}
  /\ \E i \in 1..Len(log["r2"]) : log["r2"][i].op = "delete" /\ ~log["r2"][i].ok
  /\ ctx["r1"].body = BoolBody(TRUE) /\ ctx["r2"].body = BoolBody(FALSE)
  /\ C35_Removed("a")

\* ---------------------------------------------------------------------------
\* C36. With errorIfMissing=false an absent id does not end the request at
\* the lookup.  GET goes on to the authorization handler and, when allowed,
\* emits didGetItem, both with an absent item; a custom item-method request
\* goes on to the authorization handler and, when allowed, calls the
\* registered method with an absent item; the shorthand then has no item to
\* call the storage method on, and the registered handlers read the item,
\* so the call fails.  DELETE calls neither the authorization handler nor a
\* listener, and answers false after the lookup alone.
C36_AbsentAllowed ==
  /\ ToCollection
  /\ ctx.options.errorIfMissing = "false"
  /\ Len(log) > 0
  /\ \E i \in 1..Len(log) : log[i].op = "getItem" /\ ~log[i].ok /\ log[i].item = NoItem

\* the calls after the lookup, as <<op, name, item>>
C36_After ==
  LET i == CHOOSE i \in 1..Len(log) : log[i].op = "getItem"
  IN [k \in 1..(Len(log) - i) |-> <<log[i + k].op, log[i + k].item>>]

C36_Allowed == ApplicableHandler = "" \/ CallAuthorizeHandler(ApplicableHandler, ctx.authorization)

C36_Gate == IF ApplicableHandler = "" THEN <<>> ELSE << <<"authorize", NoItem>> >>

C36_AbsentItemGoesOn ==
  C36_AbsentAllowed =>
    /\ ctx.handler = "handleGetItemRequest" =>
         /\ C36_After = C36_Gate \o (IF C36_Allowed THEN << <<"emit", NoItem>> >> ELSE <<>>)
         /\ \A i \in Calls("emit") : log[i].name = "didGetItem"
    /\ ctx.handler = "handleCustomItemMethodRequest" =>
         /\ C36_After = C36_Gate \o (IF C36_Allowed THEN << <<"custom", NoItem>> >> ELSE <<>>)
         /\ \A i \in Calls("custom") : ~log[i].ok /\ ctx.status = 500
         /\ Calls("method") = {}
    /\ ctx.handler = "handleDeleteItemRequest" =>
         /\ C36_After = <<>>
         /\ ctx.err = 0 /\ ctx.body = BoolBody(FALSE)

\* a registered item method was called for an id that is not stored
C36_Witness ==
  /\ C36_AbsentAllowed
  /\ ctx.handler = "handleCustomItemMethodRequest"
  /\ C36_After = << <<"authorize", NoItem>>, <<"custom", NoItem>> >>
  /\ \E i \in Calls("custom") : log[i].who = "fn" /\ log[i].item = NoItem
  /\ ctx.method = "GET"

\* ---------------------------------------------------------------------------
\* C37. ctx.options is the whole decoded query, the authorization token
\* included: the token is read from the query and left in it.  The options
\* given to every storage call (getItems, findItems, countItems,
\* findAndDeleteItems, save, delete, and the storage method of a shorthand),
\* to every listener and to every custom method are that query, so they
\* carry the caller's token whenever the query supplied one.
C37_WithOptions ==
  {i \in 1..Len(log) :
     log[i].op \in {"getItems", "findItems", "countItems", "findAndDeleteItems", "save", "delete",
                    "method", "emit", "custom"}}

C37_OptionsCarryToken ==
  (Served /\ ctx.handler # "next" /\ IsPrefix(Prefix, ctx.request.path)) =>
    /\ ctx.options = ctx.request.query
    /\ ctx.authorization = ctx.request.query.authorization
    /\ \A i \in C37_WithOptions :
         /\ Len(log[i].args) = 1
         /\ log[i].args[1] = ctx.request.query
         /\ log[i].args[1].authorization = ctx.authorization

\* an authorized update: the listeners and item.save were given the token
C37_Witness ==
  /\ Served /\ ctx.handler = "handlePutItemRequest"
  /\ ctx.authorization = "secret-token"
  /\ \E i \in Calls("save") : log[i].ok /\ log[i].args[1].authorization = "secret-token"
  /\ \E i \in Calls("emit") : log[i].who = "listener" /\ log[i].args[1].authorization = "secret-token"

\* ---------------------------------------------------------------------------
\* C38. On the upsert path of PUT /{slug}/{id} (the lookup found nothing and
\* the item is not required) the item that is saved is built from the
\* request body alone: it is saved under the id the body carries, not under
\* the id of the URL.  After a successful upsert the id of the URL is
\* stored, so that GET /{slug}/{id} finds it, exactly when the body carried
\* that same id.
C38_UrlId == Fragment1(AfterSlug(ctx.request))

C38_Upserted ==
  /\ Served /\ ctx.handler = "handlePutItemRequest" /\ ctx.err = 0
  /\ \E i \in Calls("getItem") : ~log[i].ok
  /\ \E i \in Calls("save") : log[i].ok

C38_UpsertKeepsBodyId ==
  C38_Upserted =>
    /\ \A i \in Calls("save") :
         /\ log[i].item.id = ctx.requestBody.item.id
         /\ Stored(store, CollectionName(ctx), log[i].item.id) = log[i].item
    /\ ctx.status = 200 /\ ctx.body.item.id = ctx.requestBody.item.id
    /\ Stored(store, CollectionName(ctx), C38_UrlId) # NoItem <=> C38_UrlId = ctx.requestBody.item.id

\* PUT /users/b with a body whose id is a: the item was stored under a and
\* the id b is still absent
C38_Witness ==
  /\ C38_Upserted
  /\ C38_UrlId = "b" /\ ctx.requestBody.item.id = "a"
  /\ Stored(store, CollectionName(ctx), "b") = NoItem
  /\ Stored(store, CollectionName(ctx), "a") # NoItem

\* ---------------------------------------------------------------------------
\* C39. The 400 'id required' of _getItem cannot be reached through the
\* router: every rule that leads to _getItem asks for a non-empty fragment1,
\* so every lookup is made with an id and no served request ends with 400; a
\* request to a collection whose fragment1 is empty is passed to the next
\* handler or served by a collection-level operation, without any lookup.
C39_CollectionLevel ==
  {"handlePostItemRequest", "handleFindItemsRequest", "handleFindAndDeleteItemsRequest", "next"}

C39_NoIdRequiredFailure ==
  Served =>
    /\ ctx.err # 400 /\ ctx.status # 400
    /\ \A i \in Calls("getItem") : log[i].name # ""
    /\ ctx.handler \in {"handleGetItemRequest", "handlePutItemRequest", "handleDeleteItemRequest",
                        "handleCustomItemMethodRequest"}
         => Fragment1(AfterSlug(ctx.request)) # ""
    /\ (ToCollection /\ Fragment1(AfterSlug(ctx.request)) = "") =>
         /\ ctx.handler \in C39_CollectionLevel
         /\ Calls("getItem") = {}

\* GET /users//get names a registered item method after an empty id: the
\* request was passed on and no lookup was made
C39_Witness ==
  /\ ToCollection
  /\ Fragment1(AfterSlug(ctx.request)) = ""
  /\ Fragment2(AfterSlug(ctx.request)) = "get"
  /\ ctx.method = "GET"
  /\ ctx.handler = "next" /\ ctx.passed = 1
  /\ Calls("getItem") = {}

\* ---------------------------------------------------------------------------
\* C40. The middleware takes the mount prefix off by a plain comparison of
\* the first characters, not at a segment boundary.  A path that does not
\* start with the prefix is passed to the next handler with nothing decoded;
\* a path that starts with the prefix and goes on without '/' (/v1users) is
\* dispatched as the path with the '/' (/v1/users) is; and one leading '/'
\* is removed per level, so that /v1//users has an empty slug and selects
\* the repository-identity probe, not the users collection.
C40_Rest == sliceFrom(ctx.request.path, Len(Prefix))

C40_WithSeparator == Routed([ctx.request EXCEPT !.path = Prefix \o <<"/">> \o C40_Rest])

C40_PrefixIsPlainString ==
  Served =>
    /\ ~IsPrefix(Prefix, ctx.request.path) =>
         /\ ctx.handler = "next" /\ ctx.passed = 1 /\ Len(log) = 1
         /\ ctx.authorization = "" /\ ctx.registeredCollection = ""
         /\ ctx.status = 404 /\ ctx.body = NoBody
    /\ (IsPrefix(Prefix, ctx.request.path) /\ C40_Rest # <<>> /\ C40_Rest[1] # "/") =>
         /\ ctx.handler = C40_WithSeparator.handler
         /\ ctx.registeredCollection = C40_WithSeparator.registeredCollection
         /\ ctx.options = C40_WithSeparator.options
         /\ ctx.authorization = C40_WithSeparator.authorization
         /\ SlugOf(ctx.request) = str(<<C40_Rest[1]>>)
         /\ SlugOf(ctx.request) \in Slugs => ctx.registeredCollection = SlugOf(ctx.request)
         /\ SlugOf(ctx.request) = "ping" => ctx.handler = "handlePingRequest"
    /\ (IsPrefix(Prefix, ctx.request.path) /\ Len(C40_Rest) >= 2
          /\ C40_Rest[1] = "/" /\ C40_Rest[2] = "/") =>
         /\ ctx.handler = "handleGetRepositoryIdRequest"
         /\ ctx.registeredCollection = ""
         /\ Calls("getRepositoryId") # {} \/ Rejections # {}

\* GET /v1users?authorization=secret-token listed the users collection
C40_Witness ==
  /\ Served
  /\ ctx.request.path = <<"/", "v1", "users">>
  /\ ctx.handler = "handleFindItemsRequest"
  /\ ctx.registeredCollection = "users"
  /\ Calls("findItems") # {}
  /\ ctx.status = 200
====
